---- MODULE Spec2Model ----
(***************************************************************************)
(* copilot-quarto: the tool registry (validate-then-execute dispatch) and  *)
(* the front-matter document engine of the dashboard tools, with the YAML  *)
(* configuration tools that rewrite _quarto.yml and workflow files.        *)
(*                                                                         *)
(* A text is the sequence of its lines, i.e. exactly content.split('\n'):  *)
(* a text always has at least one line and the empty text is <<Blank>>.    *)
(* A line is the sequence of its tokens; its characters are the tokens     *)
(* concatenated, so <<"title", ": ", "Foo">> is the line "title: Foo".     *)
(***************************************************************************)
EXTENDS Integers, Sequences, FiniteSets, TLC

VARIABLES
    tools,      \* CopilotQuartoToolRegistry.tools: the Map, in insertion order
    fs,         \* the files the tools address
    calls,      \* the async invocations in flight (one frame per call)
    registered, \* every tool object handed to register, in call order
    last,       \* outcome and trace of the call that ended last
    arg,        \* input of the pure function under study
    ret         \* its result

vars == <<tools, fs, calls, registered, last, arg, ret>>

-----------------------------------------------------------------------------
(* Bounds of the model. *)

MaxDocLines == 4
MaxFileLines == 3
MaxBodyLines == 2
MaxHeaderKeys == 2
MaxRegister == 3
MaxCalls == 2
MaxWords == 3

-----------------------------------------------------------------------------
(* Sequences. *)

RECURSIVE SeqsUpTo(_, _)
SeqsUpTo(S, n) ==
    IF n = 0 THEN {<<>>}
    ELSE LET shorter == SeqsUpTo(S, n - 1)
         IN  shorter \cup {Append(s, x) : s \in {t \in shorter : Len(t) = n - 1}, x \in S}

RECURSIVE Flatten(_)
Flatten(ss) == IF ss = <<>> THEN <<>> ELSE Head(ss) \o Flatten(Tail(ss))

Range(s) == {s[i] : i \in 1..Len(s)}

-----------------------------------------------------------------------------
(* Lines. *)

Blank == <<>>
Delim == <<"---">>
IndentedDelim == <<"  ", "---">>
TitleFoo == <<"title", ": ", "Foo">>
FormatHtml == <<"format", ": ", "html">>
NoteQuoted == <<"note", ": ", "\"", "---\\n---", "\"">>
SeqItem == <<"- ", "item">>
Plain == <<"Body text">>
BadPair == <<"title", ": ", "Foo", ": ", "bar">>

WhiteSpace == {" ", "  "}

\* String.prototype.trim on one line
RECURSIVE TrimLeft(_)
TrimLeft(l) ==
    IF l # <<>> /\ Head(l) \in WhiteSpace THEN TrimLeft(Tail(l)) ELSE l

RECURSIVE TrimRight(_)
TrimRight(l) ==
    IF l # <<>> /\ l[Len(l)] \in WhiteSpace
    THEN TrimRight(SubSeq(l, 1, Len(l) - 1)) ELSE l

Trim(l) == TrimRight(TrimLeft(l))

\* lines.slice(from, to).join('\n') as a text: joining no line gives ""
JoinLines(ls) == IF ls = <<>> THEN <<Blank>> ELSE ls

-----------------------------------------------------------------------------
(* The yaml package as the tools use it: parse of a header text, and       *)
(* stringify of the value the tool built from it.                          *)
(* A scalar is the sequence of the lines of the string it denotes.         *)

MultiLine == <<"---", "---">>
EmptyString == <<"">>

NullValue == [kind |-> "null", pairs |-> <<>>, items |-> <<>>]
EmptyMap == [kind |-> "map", pairs |-> <<>>, items |-> <<>>]
YamlError == [kind |-> "error", pairs |-> <<>>, items |-> <<>>]
MapOf(ps) == [kind |-> "map", pairs |-> ps, items |-> <<>>]

\* the escapes of a double-quoted scalar
Unescape(tok) == IF tok = "---\\n---" THEN MultiLine ELSE <<tok>>

LineClass(l) ==
    CASE l = <<>> -> "blank"
      [] l = <<"{}">> -> "emptyflow"
      [] Len(l) = 3 /\ l[2] = ": " -> "pair"
      [] Len(l) = 5 /\ l[2] = ": " /\ l[3] = "\"" /\ l[5] = "\"" -> "pair"
      [] Len(l) = 2 /\ l[1] = "- " -> "seqitem"
      [] Len(l) = 1 /\ l # Delim -> "plain"
      [] OTHER -> "bad"

PairKey(l) == l[1]

PairValue(l) ==
    IF Len(l) = 5 THEN Unescape(l[4])
    ELSE IF l[3] = "|-" \/ l[3] = "\"\"" THEN EmptyString
    ELSE <<l[3]>>

Keys(ps) == {ps[i][1] : i \in 1..Len(ps)}

\* one more line read by the parser; closed: a flow mapping {} has ended
YamlStep(st, l) ==
    LET c == LineClass(l)
        fail == [st EXCEPT !.kind = "error"]
    IN  IF st.kind = "error" \/ c = "blank" THEN st
        ELSE IF c = "bad" \/ st.closed THEN fail
        ELSE IF c = "emptyflow"
             THEN IF st.kind = "null"
                  THEN [st EXCEPT !.kind = "map", !.closed = TRUE] ELSE fail
        ELSE IF c = "pair"
             THEN IF st.kind \in {"null", "map"} /\ PairKey(l) \notin Keys(st.pairs)
                  THEN [st EXCEPT !.kind = "map",
                                  !.pairs = Append(@, <<PairKey(l), PairValue(l)>>)]
                  ELSE fail
        ELSE IF c = "seqitem"
             THEN IF st.kind \in {"null", "seq"}
                  THEN [st EXCEPT !.kind = "seq", !.items = Append(@, <<l[2]>>)]
                  ELSE IF st.kind = "scalar" THEN st ELSE fail
        ELSE IF st.kind \in {"null", "scalar"}
             THEN [st EXCEPT !.kind = "scalar"] ELSE fail

RECURSIVE YamlFold(_, _)
YamlFold(st, ls) ==
    IF ls = <<>> THEN st ELSE YamlFold(YamlStep(st, Head(ls)), Tail(ls))

\* yaml.parse(text)
YamlParse(ls) ==
    LET st == YamlFold([kind |-> "null", pairs |-> <<>>, items |-> <<>>,
                        closed |-> FALSE], ls)
    IN  [kind |-> st.kind, pairs |-> st.pairs, items |-> st.items]

PairLines(p) ==
    LET k == p[1]
        v == p[2]
    IN  IF Len(v) = 1
        THEN IF v = EmptyString THEN <<<<k, ": ", "\"\"">>>> ELSE <<<<k, ": ", v[1]>>>>
        ELSE <<<<k, ": ", "|-">>>>
             \o [i \in 1..Len(v) |-> IF v[i] = "" THEN Blank ELSE <<"  ", v[i]>>]

\* yaml.stringify(value): the lines of its output, which ends with '\n'
YamlStringify(val) ==
    IF val.kind = "seq" THEN [i \in 1..Len(val.items) |-> <<"- ", val.items[i][1]>>]
    ELSE IF val.pairs = <<>> THEN <<<<"{}">>>>
    ELSE Flatten([i \in 1..Len(val.pairs) |-> PairLines(val.pairs[i])])

-----------------------------------------------------------------------------
(* The front-matter engine of the dashboard tools. *)

DelimiterAt(lines, i) == Trim(lines[i]) = Delim

\* the loop of parseQmdFile: index of the first delimiter line, or -1
frontMatterStart(lines) ==
    LET hits == {i \in 1..Len(lines) : DelimiterAt(lines, i)}
    IN  IF hits = {} THEN -1 ELSE CHOOSE i \in hits : \A j \in hits : i <= j

\* the scan without its break: the last delimiter line ends the header
frontMatterEndLast(lines) ==
    LET s == frontMatterStart(lines)
        hits == {i \in 1..Len(lines) : i > s /\ s # -1 /\ DelimiterAt(lines, i)}
    IN  IF hits = {} THEN -1 ELSE CHOOSE i \in hits : \A j \in hits : i >= j

\* index of the second delimiter line, or -1
frontMatterEnd(lines) ==
    LET s == frontMatterStart(lines)
        hits == {i \in 1..Len(lines) : i > s /\ s # -1 /\ DelimiterAt(lines, i)}
    IN  IF hits = {} THEN -1 ELSE CHOOSE i \in hits : \A j \in hits : i <= j

\* yaml.parse(yamlContent) || {}
OrEmpty(val) == IF val.kind = "null" THEN EmptyMap ELSE val

\* a header that is opened and never closed swallows the rest of the text
parseQmdFileUnclosed(content) ==
    LET s == frontMatterStart(content)
        e == IF frontMatterEnd(content) = -1 THEN Len(content) + 1 ELSE frontMatterEnd(content)
    IN  IF s # -1
        THEN LET parsed == YamlParse(SubSeq(content, s + 1, e - 1))
             IN  [threw |-> parsed.kind = "error",
                  frontMatter |-> OrEmpty(parsed),
                  body |-> JoinLines(SubSeq(content, e + 1, Len(content)))]
        ELSE [threw |-> FALSE, frontMatter |-> EmptyMap, body |-> content]

parseQmdFile(content) ==
    LET s == frontMatterStart(content)
        e == frontMatterEnd(content)
    IN  IF s # -1 /\ e # -1
        THEN LET yamlContent == SubSeq(content, s + 1, e - 1)
                 parsed == YamlParse(yamlContent)
             IN  [threw |-> parsed.kind = "error",
                  frontMatter |-> OrEmpty(parsed),
                  body |-> JoinLines(SubSeq(content, e + 1, Len(content)))]
        ELSE [threw |-> FALSE, frontMatter |-> EmptyMap, body |-> content]

\* a serializer that drops the blank lines a body starts with
RECURSIVE DropBlank(_)
DropBlank(body) ==
    IF Len(body) > 1 /\ Head(body) = Blank THEN DropBlank(Tail(body)) ELSE body

serializeQmdFileTrimmed(frontMatter, body) ==
    <<Delim>> \o YamlStringify(frontMatter) \o <<Delim>> \o DropBlank(body)

\* `---\n${yamlContent}---\n${body}`
serializeQmdFile(frontMatter, body) ==
    <<Delim>> \o YamlStringify(frontMatter) \o <<Delim>> \o body

-----------------------------------------------------------------------------
(* JavaScript values of the parameter objects: a type tag and a payload.   *)
(* A field that is not supplied reads as undefined.                        *)

Undefined == [t |-> "undefined", v |-> ""]
Str(s) == [t |-> "string", v |-> s]
\* a string whose content matters: the sequence of its words
Text(words) == [t |-> "text", v |-> words]
True == [t |-> "boolean", v |-> "true"]
False == [t |-> "boolean", v |-> "false"]

Get(params, f) == IF f \in DOMAIN params THEN params[f] ELSE Undefined

\* !x
Not(x) ==
    \/ x.t = "undefined"
    \/ x.t = "string" /\ x.v = ""
    \/ x.t = "text" /\ x.v = <<>>
    \/ x.t = "boolean" /\ x.v = "false"

TypeofBoolean(x) == x.t = "boolean"

\* const { f = dflt } = params
OrDefault(x, dflt) == IF x.t = "undefined" THEN Str(dflt) ELSE x

\* a validation that stops at the first failing constraint
PushIfFirstOnly(errors, cond, e) == IF cond /\ errors = <<>> THEN Append(errors, e) ELSE errors

\* errors.push(e) when cond
PushIf(errors, cond, e) == IF cond THEN Append(errors, e) ELSE errors

Validation(errors) == [valid |-> Len(errors) = 0, errors |-> errors]

-----------------------------------------------------------------------------
(* validateParams of the tools. *)

ValidateCreateProject(params) ==
    LET e1 == PushIf(<<>>, Not(Get(params, "project_directory_name")),
                     "project_directory_name is required")
        e2 == PushIf(e1, ~TypeofBoolean(Get(params, "create_git_repo")),
                     "create_git_repo must be a boolean")
        e3 == PushIf(e2, ~TypeofBoolean(Get(params, "use_renv")),
                     "use_renv must be a boolean")
    IN  Validation(e3)

ValidateGenerateImage(params) ==
    LET e1 == PushIf(<<>>, Not(Get(params, "api_key")), "api_key is required")
        e2 == PushIf(e1, Not(Get(params, "prompt")), "prompt is required")
        e3 == PushIf(e2, Not(Get(params, "output_file_path")),
                     "output_file_path is required")
    IN  Validation(e3)

ValidateFormat(params) ==
    Validation(PushIf(<<>>, Not(Get(params, "qmd_file_path")),
                      "qmd_file_path is required"))

ValidateLayout(params) ==
    LET e1 == PushIf(<<>>, Not(Get(params, "qmd_file_path")),
                     "qmd_file_path is required")
        e2 == PushIf(e1, Not(Get(params, "layout_structure")),
                     "layout_structure is required")
    IN  Validation(e2)

ValidateLogo(params) ==
    LET e1 == PushIf(<<>>, Not(Get(params, "qmd_file_path")),
                     "qmd_file_path is required")
        e2 == PushIf(e1, Not(Get(params, "logo_image_path")),
                     "logo_image_path is required")
    IN  Validation(e2)

ValidateScssTheme(params) ==
    LET e1 == PushIf(<<>>, Not(Get(params, "quarto_yml_path")),
                     "quarto_yml_path is required")
        e2 == PushIf(e1, Not(Get(params, "scss_file_path")),
                     "scss_file_path is required")
    IN  Validation(e2)

ValidateWorkflowEnv(params) ==
    LET e1 == PushIf(<<>>, Not(Get(params, "workflow_yml_path")),
                     "workflow_yml_path is required")
        e2 == PushIf(e1, Not(Get(params, "r_script_env_name")),
                     "r_script_env_name is required")
        e3 == PushIf(e2, Not(Get(params, "github_secret_name")),
                     "github_secret_name is required")
    IN  Validation(e3)

ValidateRenderLocal(params) == Validation(<<>>)

ValidateDownload(params) ==
    LET e1 == PushIf(<<>>, Not(Get(params, "url")), "url is required")
        e2 == PushIf(e1, Not(Get(params, "local_path")), "local_path is required")
    IN  Validation(e2)

ValidateStoreSecrets(params) ==
    LET e1 == PushIf(<<>>, Not(Get(params, "variable_name")), "variable_name is required")
        e2 == PushIf(e1, Not(Get(params, "variable_value")), "variable_value is required")
    IN  Validation(e2)

ValidateHttr2(params) ==
    LET e1 == PushIf(<<>>, Not(Get(params, "api_endpoint")), "api_endpoint is required")
        e2 == PushIf(e1, Not(Get(params, "request_path_append")),
                     "request_path_append is required")
        e3 == PushIf(e2, Not(Get(params, "authentication_token")),
                     "authentication_token is required")
        e4 == PushIf(e3, Not(Get(params, "body_json")), "body_json is required")
    IN  Validation(e4)

ValidateJsonParse(params) ==
    Validation(PushIf(<<>>, Not(Get(params, "json_string")), "json_string is required"))

ValidateCron(params) ==
    Validation(PushIf(<<>>, Not(Get(params, "natural_language_time_description")),
                      "natural_language_time_description is required"))

ValidateSite(params) ==
    LET e1 == PushIf(<<>>, Not(Get(params, "quarto_yml_path")),
                     "quarto_yml_path is required")
        e2 == PushIf(e1, Not(Get(params, "project_type")), "project_type is required")
    IN  Validation(e2)

ValidateSchedule(params) ==
    LET e1 == PushIf(<<>>, Not(Get(params, "workflow_yml_path")),
                     "workflow_yml_path is required")
        e2 == PushIf(e1, Not(Get(params, "cron_expression")),
                     "cron_expression is required")
    IN  Validation(e2)

\* the classes of the modelled tools, by the name their constructor sets
CreateProject == "quarto_create_project_with_renv_and_git"
DefineFormat == "quarto_define_dashboard_format"
DefineLayout == "quarto_define_dashboard_layout"
AddLogo == "quarto_add_dashboard_logo"
ApplyScssTheme == "quarto_apply_scss_theme"
ScheduleWorkflow == "github_actions_schedule_workflow"
DefineWorkflowEnv == "github_actions_define_workflow_env"
RenderLocal == "quarto_render_local"
DownloadFile == "r_download_file"
ConfigureSite == "quarto_configure_site_yml"
GenerateCron == "chatgpt_generate_cron_expression"
StoreSecrets == "r_store_local_secrets_renviron"
Httr2Access == "r_package_httr2_api_access"
JsonParse == "r_json_parse"
GenerateImage == "openai_generate_image"

\* tool.validateParams(params), dispatched on the class of the tool object
validateParams(cls, params) ==
    CASE cls = CreateProject -> ValidateCreateProject(params)
      [] cls = DefineFormat -> ValidateFormat(params)
      [] cls = DefineLayout -> ValidateLayout(params)
      [] cls = AddLogo -> ValidateLogo(params)
      [] cls = ApplyScssTheme -> ValidateScssTheme(params)
      [] cls = ScheduleWorkflow -> ValidateSchedule(params)
      [] cls = DefineWorkflowEnv -> ValidateWorkflowEnv(params)
      [] cls = RenderLocal -> ValidateRenderLocal(params)
      [] cls = DownloadFile -> ValidateDownload(params)
      [] cls = GenerateCron -> ValidateCron(params)
      [] cls = ConfigureSite -> ValidateSite(params)
      [] cls = StoreSecrets -> ValidateStoreSecrets(params)
      [] cls = Httr2Access -> ValidateHttr2(params)
      [] cls = JsonParse -> ValidateJsonParse(params)
      [] cls = GenerateImage -> ValidateGenerateImage(params)
      [] OTHER -> Validation(<<>>)

-----------------------------------------------------------------------------
(* The file system: the .qmd documents by path, one _quarto.yml, one       *)
(* workflow file and one project directory.                                *)

QmdPath == "index.qmd"
MissingPath == "missing.qmd"
QmdPaths == {QmdPath, MissingPath}
YmlPath == "_quarto.yml"
WorkflowPath == "ci.yml"
ProjectName == "proj"

NoText == <<Blank>>
Absent == [exists |-> FALSE, text |-> NoText]
File(text) == [exists |-> TRUE, text |-> text]

\* an existence test that only looks at the name
ExistsSyncByName(f, path) == path \in DOMAIN f.docs

\* fs.existsSync(path) for a document
ExistsSync(f, path) == path \in DOMAIN f.docs /\ f.docs[path].exists

\* fs.writeFileSync(path, text) for a document
WriteDoc(f, path, text) == [f EXCEPT !.docs[path] = File(text)]

Resolved(msg) == [kind |-> "resolved", msg |-> msg]
Rejected(msg) == [kind |-> "rejected", msg |-> msg]
Effect(f, out) == [fs |-> f, out |-> out]

\* obj[k] = v on a parsed value: an own property, replaced in place or added last
SetField(val, k, v) ==
    IF k \in Keys(val.pairs)
    THEN [val EXCEPT !.pairs = [i \in 1..Len(@) |->
                                   IF @[i][1] = k THEN <<k, v>> ELSE @[i]]]
    ELSE [val EXCEPT !.pairs = Append(@, <<k, v>>)]

\* assigning a property to a primitive throws in the strict mode of a class body
IsPrimitive(val) == val.kind = "scalar"

NotExist(path) == Rejected(<<"File ", path, " does not exist">>)
ParseFailure == Rejected(<<"YAMLParseError">>)
TypeFailure == Rejected(<<"TypeError">>)

\* a tool that opens the file for writing before it has parsed the old text
MutateDocTruncating(f, path, fields) ==
    IF ~ExistsSync(f, path) THEN Effect(f, NotExist(path))
    ELSE LET parsed == parseQmdFile(f.docs[path].text)
         IN  IF parsed.threw THEN Effect(WriteDoc(f, path, NoText), ParseFailure)
             ELSE IF IsPrimitive(parsed.frontMatter)
                  THEN Effect(WriteDoc(f, path, NoText), TypeFailure)
             ELSE Effect(WriteDoc(f, path, serializeQmdFile(parsed.frontMatter, parsed.body)),
                         Resolved(<<"success">>))

\* the read-parse-mutate-serialize-write body shared by the dashboard tools
MutateDoc(f, path, fields) ==
    IF ~ExistsSync(f, path) THEN Effect(f, NotExist(path))
    ELSE LET parsed == parseQmdFile(f.docs[path].text)
         IN  IF parsed.threw THEN Effect(f, ParseFailure)
             ELSE IF IsPrimitive(parsed.frontMatter) THEN Effect(f, TypeFailure)
             ELSE LET RECURSIVE Apply(_, _)
                      Apply(val, fl) ==
                          IF fl = <<>> THEN val
                          ELSE Apply(SetField(val, Head(fl)[1], Head(fl)[2]), Tail(fl))
                      updatedContent ==
                          serializeQmdFile(Apply(parsed.frontMatter, fields), parsed.body)
                  IN  Effect(WriteDoc(f, path, updatedContent), Resolved(<<"success">>))

\* QuartoDefineDashboardFormat.execute
FormatExecute(f, params) ==
    LET qmd_file_path == Get(params, "qmd_file_path").v
        format_type == OrDefault(Get(params, "format_type"), "dashboard").v
    IN  MutateDoc(f, qmd_file_path, <<<<"format", <<format_type>>>>>>)

\* QuartoDefineDashboardLayout.execute
LayoutExecute(f, params) ==
    LET qmd_file_path == Get(params, "qmd_file_path").v
        layout_structure == Get(params, "layout_structure").v
        orientation == OrDefault(Get(params, "orientation"), "columns").v
    IN  MutateDoc(f, qmd_file_path,
                  << <<"format", <<"dashboard">>>>,
                     <<"layout", <<layout_structure>>>>,
                     <<"orientation", <<orientation>>>> >>)

\* QuartoAddDashboardLogo.execute
LogoExecute(f, params) ==
    LET qmd_file_path == Get(params, "qmd_file_path").v
        logo_image_path == Get(params, "logo_image_path").v
    IN  MutateDoc(f, qmd_file_path, <<<<"logo", <<logo_image_path>>>>>>)

-----------------------------------------------------------------------------
(* YAML configuration files. Their text is kept as the value it denotes    *)
(* plus its style: "hand" for a text as somebody wrote it (comments, flow  *)
(* style, quoting), "canon" for the text yaml.stringify emits. Parsing     *)
(* forgets the style and stringify always emits the canonical text, so two *)
(* texts are byte-identical exactly when value and style agree.            *)

\* a workflow file: on is absent, a single event name, a list of event
\* names or a mapping; schedule is the list of cron entries under on
NoTrigger == [kind |-> "absent", push |-> FALSE, schedule |-> <<>>]
\* jobs: the file has a jobs mapping; env: the variable names its jobs map
Workflow(style, kind, on) ==
    [style |-> style, kind |-> kind, on |-> on, jobs |-> kind = "map", env |-> {}]

WorkflowValues ==
    {Workflow("hand", k, NoTrigger) : k \in {"error", "null", "scalar", "seq", "map"}}
    \cup {Workflow("hand", "map", [kind |-> k, push |-> TRUE, schedule |-> <<>>]) :
            k \in {"string", "list", "map"}}
    \cup {Workflow("hand", "map", [kind |-> "map", push |-> FALSE, schedule |-> <<"0 0 * * *">>])}

\* yaml.stringify(workflow): an array prints its elements only, so the
\* properties set on it are not written
StringifyWorkflow(w) ==
    [w EXCEPT !.style = "canon",
              !.on = IF w.kind = "map" /\ @.kind \in {"string", "map"} THEN @
                     ELSE IF w.kind = "map" /\ @.kind = "list" THEN [@ EXCEPT !.schedule = <<>>]
                     ELSE NoTrigger]

\* GithubActionsScheduleWorkflow.execute
ScheduleExecute(f, params) ==
    LET workflow_yml_path == Get(params, "workflow_yml_path").v
        cron_expression == Get(params, "cron_expression").v
        workflow == f.wf.text
    IN  IF ~(workflow_yml_path = WorkflowPath /\ f.wf.exists)
        THEN Effect(f, Rejected(<<"Workflow file does not exist: ", workflow_yml_path>>))
        ELSE IF workflow.kind = "error" THEN Effect(f, ParseFailure)
        \* workflow.on of null, workflow.on = {} on a string,
        \* workflow.on.schedule = [...] on a string
        ELSE IF workflow.kind \in {"null", "scalar"} \/ workflow.on.kind = "string"
             THEN Effect(f, TypeFailure)
        ELSE LET on == IF workflow.on.kind = "absent"
                       THEN [NoTrigger EXCEPT !.kind = "map"] ELSE workflow.on
                 updated == [workflow EXCEPT !.on = [on EXCEPT !.schedule = <<cron_expression>>]]
             IN  Effect([f EXCEPT !.wf = File(StringifyWorkflow(updated))],
                        Resolved(<<"success">>))

\* GithubActionsDefineWorkflowEnv.execute on the text that was read: the
\* parse, the default for jobs, the env entry of every job
EnvApply(content, r_script_env_name) ==
    IF content.kind = "error"
    THEN [threw |-> TRUE, out |-> ParseFailure, workflow |-> content]
    \* workflowData.jobs of null, workflowData.jobs = {} on a string
    ELSE IF content.kind \in {"null", "scalar"}
         THEN [threw |-> TRUE, out |-> TypeFailure, workflow |-> content]
    ELSE IF content.kind = "seq"
         THEN [threw |-> FALSE, out |-> Resolved(<<"success">>), workflow |-> content]
    ELSE [threw |-> FALSE, out |-> Resolved(<<"success">>),
          workflow |-> [content EXCEPT !.jobs = TRUE,
                                       !.env = @ \cup {r_script_env_name}]]

-----------------------------------------------------------------------------
(* _quarto.yml as quarto_apply_scss_theme reads it: the kind of the parsed *)
(* document, of its format and format.html entries, and the theme entry.   *)

NoTheme == [kind |-> "absent", items |-> <<>>]
ThemeString(t) == [kind |-> "string", items |-> <<t>>]
ThemeList(ts) == [kind |-> "list", items |-> ts]
\* theme: {light: cosmo, dark: darkly}
ThemeObject == [kind |-> "object", items |-> <<"cosmo", "darkly">>]

\* the project and website entries: kind is absent, string or map; sib
\* holds the keys of a mapping that no tool addresses
NoProjectKey == [kind |-> "absent", type |-> "", outdir |-> "", sib |-> {}]
NoNav == [kind |-> "absent", pages |-> <<>>, sib |-> {}]
NoWebsite == [kind |-> "absent", sib |-> {}, navbar |-> NoNav, sidebar |-> NoNav]

\* top, fsib, hsib: the other keys of the document, of format, of format.html
Config(style, kind, format, html, theme) ==
    [style |-> style, kind |-> kind, format |-> format, html |-> html, theme |-> theme,
     top |-> {}, project |-> NoProjectKey, website |-> NoWebsite,
     fsib |-> {}, hsib |-> {}]

AbsentYml == [exists |-> FALSE, text |-> Config("hand", "null", "absent", "absent", NoTheme)]

\* yaml.stringify(config): an array prints its elements only
StringifyConfig(c) ==
    IF c.kind = "map" THEN [c EXCEPT !.style = "canon"]
    ELSE Config("canon", c.kind, "absent", "absent", NoTheme)

\* the theme list that replaces whatever was configured
ThemeReplaced(currentTheme, scss_file_path) == ThemeList(<<scss_file_path>>)

\* lines 353-369: the new theme entry
ThemeAppended(currentTheme, scss_file_path) ==
    CASE currentTheme.kind = "string" -> ThemeList(currentTheme.items \o <<scss_file_path>>)
      [] currentTheme.kind = "list" ->
            IF scss_file_path \in Range(currentTheme.items) THEN currentTheme
            ELSE ThemeList(Append(currentTheme.items, scss_file_path))
      [] OTHER -> ThemeList(<<scss_file_path>>)

\* lines 346-369 on the text that was read: the parse, the defaults for
\* format and format.html, the theme update; threw: yaml.parse failed or a
\* property was assigned on a string
ScssApply(content, scss_file_path) ==
    LET config == IF content.kind = "null" THEN [content EXCEPT !.kind = "map"] ELSE content
    IN  IF config.kind = "error" THEN [threw |-> TRUE, out |-> ParseFailure, config |-> config]
        ELSE IF config.kind = "scalar" \/ config.format = "string" \/ config.html = "string"
             THEN [threw |-> TRUE, out |-> TypeFailure, config |-> config]
        ELSE [threw |-> FALSE, out |-> Resolved(<<"success">>),
              config |-> [config EXCEPT !.format = "map", !.html = "map",
                                        !.theme = ThemeAppended(@, scss_file_path)]]

-----------------------------------------------------------------------------
(* quarto_configure_site_yml. *)

\* an array value of params
Arr(items) == [t |-> "array", v |-> items]

\* getPageTitle(page): the base name without .qmd, first letter in capitals
getPageTitle(page) ==
    CASE page = "index.qmd" -> "Index"
      [] page = "about.qmd" -> "About"
      [] OTHER -> page

\* a page list that is added to the entries already there
NavbarLeftAppended(left, pages_list) ==
    left \o [i \in 1..Len(pages_list) |-> <<pages_list[i], getPageTitle(pages_list[i])>>]

\* pages_list.map(page => ({href: page, text: this.getPageTitle(page)}))
NavbarLeft(left, pages_list) ==
    [i \in 1..Len(pages_list) |-> <<pages_list[i], getPageTitle(pages_list[i])>>]

\* lines 84-98: theme_config as a JSON array when it parses as one
ThemeOf(theme_config) ==
    IF theme_config = "[\"a.scss\"]" THEN ThemeList(<<"a.scss">>)
    ELSE ThemeString(theme_config)

\* x || {} for an entry; assigning into it throws when it is a string
OrMap(node) == IF node.kind = "absent" THEN [node EXCEPT !.kind = "map"] ELSE node

\* QuartoConfigureSiteYml.execute on the parsed file (or on {} when there
\* is no file): threw when yaml.parse failed or a property was assigned on
\* a string
SiteApply(content, params) ==
    LET project_type == Get(params, "project_type").v
        output_dir == OrDefault(Get(params, "output_dir"), "_site").v
        navigation_type == Get(params, "navigation_type")
        pages_list == Get(params, "pages_list")
        theme_config == Get(params, "theme_config")
        hasPages == pages_list.t = "array" /\ Len(pages_list.v) > 0
        config == IF content.kind = "null" THEN [content EXCEPT !.kind = "map"] ELSE content
        navbar == project_type = "website" /\ navigation_type = Str("navbar")
        sidebar == project_type = "website" /\ navigation_type = Str("sidebar")
        fails ==
            \/ config.kind = "scalar"
            \/ config.project.kind = "string"
            \/ (navbar \/ sidebar) /\ config.website.kind = "string"
            \/ navbar /\ hasPages /\ config.website.navbar.kind = "string"
            \/ sidebar /\ hasPages /\ config.website.sidebar.kind = "string"
            \/ config.format = "string"
            \/ ~Not(theme_config) /\ config.html = "string"
        w1 == IF project_type = "website" THEN OrMap(config.website) ELSE config.website
        w2 == IF navbar
              THEN [w1 EXCEPT !.navbar =
                       [OrMap(@) EXCEPT !.pages = IF hasPages THEN NavbarLeft(@, pages_list.v)
                                                  ELSE @]]
              ELSE w1
        w3 == IF sidebar
              THEN [w2 EXCEPT !.sidebar =
                       [OrMap(@) EXCEPT !.pages = IF hasPages THEN pages_list.v ELSE @]]
              ELSE w2
    IN  IF config.kind = "error" THEN [threw |-> TRUE, out |-> ParseFailure, config |-> config]
        ELSE IF fails THEN [threw |-> TRUE, out |-> TypeFailure, config |-> config]
        ELSE [threw |-> FALSE, out |-> Resolved(<<"success">>),
              config |-> [config EXCEPT
                            !.project = [OrMap(@) EXCEPT !.type = project_type,
                                                         !.outdir = output_dir],
                            !.website = w3,
                            !.format = "map",
                            !.html = IF @ = "absent" THEN "map" ELSE @,
                            !.theme = IF Not(theme_config) THEN @
                                      ELSE ThemeOf(theme_config.v)]]

\* QuartoConfigureSiteYml.execute: the file is read when it exists and
\* written in any case
SiteExecute(f, params) ==
    LET quarto_yml_path == Get(params, "quarto_yml_path").v
        content == IF quarto_yml_path = YmlPath /\ f.yml.exists THEN f.yml.text
                   ELSE Config("hand", "null", "absent", "absent", NoTheme)
        r == SiteApply(content, params)
    IN  IF r.threw THEN Effect(f, r.out)
        ELSE Effect([f EXCEPT !.yml = File(StringifyConfig(r.config))], r.out)

-----------------------------------------------------------------------------
(* Project creation. *)

NoProject == [exists |-> FALSE, files |-> {}]
Faults == {"none", "write", "git", "renv"}

\* the files in the directory when the step named by fault throws: the
\* project files, then git init and .gitignore, then renv, then README.md
Partial(create_git_repo, use_renv, fault) ==
    {"_quarto.yml", "index.qmd", "styles.css"}
    \cup (IF create_git_repo /\ fault # "git" THEN {".git", ".gitignore"} ELSE {})
    \cup (IF use_renv /\ fault = "write" THEN {"renv"} ELSE {})

\* an execute whose catch block rethrows without removing the directory
ProjectExecuteKeeping(f, params, fault) ==
    LET project_directory_name == Get(params, "project_directory_name").v
        create_git_repo == Get(params, "create_git_repo") = True
        use_renv == Get(params, "use_renv") = True
        failed == \/ fault = "write"
                  \/ fault = "git" /\ create_git_repo
                  \/ fault = "renv" /\ use_renv
        created == {"_quarto.yml", "index.qmd", "styles.css", "README.md"}
                   \cup (IF create_git_repo THEN {".git", ".gitignore"} ELSE {})
                   \cup (IF use_renv THEN {"renv"} ELSE {})
    IN  IF f.proj.exists
        THEN Effect(f, Rejected(<<"Directory '", project_directory_name, "' already exists">>))
        ELSE IF failed
             THEN Effect([f EXCEPT !.proj = [exists |-> TRUE,
                                             files |-> Partial(create_git_repo, use_renv, fault)]],
                         Rejected(<<fault, " failed">>))
             ELSE Effect([f EXCEPT !.proj = [exists |-> TRUE, files |-> created]],
                         Resolved(<<"success">>))

\* an execute whose existence test sits inside the try block
ProjectExecuteCleaning(f, params, fault) ==
    LET project_directory_name == Get(params, "project_directory_name").v
        create_git_repo == Get(params, "create_git_repo") = True
        use_renv == Get(params, "use_renv") = True
        failed == \/ fault = "write"
                  \/ fault = "git" /\ create_git_repo
                  \/ fault = "renv" /\ use_renv
        created == {"_quarto.yml", "index.qmd", "styles.css", "README.md"}
                   \cup (IF create_git_repo THEN {".git", ".gitignore"} ELSE {})
                   \cup (IF use_renv THEN {"renv"} ELSE {})
    IN  IF f.proj.exists \/ failed
        THEN Effect([f EXCEPT !.proj = NoProject],
                    IF f.proj.exists
                    THEN Rejected(<<"Directory '", project_directory_name, "' already exists">>)
                    ELSE Rejected(<<fault, " failed">>))
        ELSE Effect([f EXCEPT !.proj = [exists |-> TRUE, files |-> created]],
                    Resolved(<<"success">>))

\* QuartoCreateProjectWithRenvAndGit.execute; fault: the collaborator step
\* that fails in this run, if any. Its awaits are on functions that have
\* already run to their end, so no other call sees the directory half made.
ProjectExecute(f, params, fault) ==
    LET project_directory_name == Get(params, "project_directory_name").v
        create_git_repo == Get(params, "create_git_repo") = True
        use_renv == Get(params, "use_renv") = True
        failed == \/ fault = "write"
                  \/ fault = "git" /\ create_git_repo
                  \/ fault = "renv" /\ use_renv
        created == {"_quarto.yml", "index.qmd", "styles.css", "README.md"}
                   \cup (IF create_git_repo THEN {".git", ".gitignore"} ELSE {})
                   \cup (IF use_renv THEN {"renv"} ELSE {})
    IN  IF f.proj.exists
        THEN Effect(f, Rejected(<<"Directory '", project_directory_name, "' already exists">>))
        ELSE IF failed
             \* the directory holds Partial(...) here;
             \* catch: fs.removeSync(projectPath); throw error
             THEN Effect([f EXCEPT !.proj = NoProject], Rejected(<<fault, " failed">>))
             ELSE Effect([f EXCEPT !.proj = [exists |-> TRUE, files |-> created]],
                         Resolved(<<"success">>))

-----------------------------------------------------------------------------
(* Tools that call out: quarto_render_local runs three subprocesses,       *)
(* r_download_file makes an HTTP request and streams it to a file.         *)

RenderFaults == {"none", "version", "render", "preview"}
DownloadFaults == {"none", "http", "stream"}

\* QuartoRenderLocal.execute
RenderExecute(f, params, fault) ==
    IF fault = "version"
    THEN Effect(f, Rejected(<<"Quarto is not installed or not in PATH. Please install Quarto first.">>))
    ELSE IF fault = "render" THEN Effect(f, Rejected(<<"render failed">>))
    \* a failure of quarto preview is caught and logged
    ELSE Effect([f EXCEPT !.site = TRUE], Resolved(<<"success">>))

\* RDownloadFile.execute: a failure of the request or of the stream is
\* caught and logged; the stream has created the file when it fails
DownloadExecute(f, params, fault) ==
    IF fault = "http" THEN Effect(f, Resolved(<<"success">>))
    ELSE Effect([f EXCEPT !.dl = TRUE], Resolved(<<"success">>))

-----------------------------------------------------------------------------
(* chatgpt_generate_cron_expression. A description is the sequence of its  *)
(* words, which single spaces separate.                                    *)

\* String.prototype.toLowerCase, word by word
LowerWord(w) ==
    CASE w = "AM" -> "am"
      [] w = "ET" -> "et"
      [] w = "Eastern" -> "eastern"
      [] w = "EASTERN" -> "eastern"
      [] w = "Daylight" -> "daylight"
      [] w = "Time" -> "time"
      [] w = "UTC" -> "utc"
      [] w = "Daily" -> "daily"
      [] OTHER -> w

toLowerCase(words) == [i \in 1..Len(words) |-> LowerWord(words[i])]

\* String.prototype.includes
Includes(words, part) ==
    \E i \in 0..(Len(words) - Len(part)) : SubSeq(words, i + 1, i + Len(part)) = part

\* cronMap, in the order of Object.entries
cronMap ==
    << <<<<"every", "day", "at", "8", "AM">>, "0 8 * * *">>,
       <<<<"every", "day", "at", "08:00", "ET">>, "0 13 * * *">>,
       <<<<"every", "day", "at", "8:00", "AM", "Eastern">>, "0 13 * * *">>,
       <<<<"daily", "at", "8", "AM">>, "0 8 * * *">>,
       <<<<"daily", "at", "8:00">>, "0 8 * * *">>,
       <<<<"every", "morning", "at", "8">>, "0 8 * * *">> >>

NoCron == "null"

\* the loop over cronMap: the first entry that contains the input or is
\* contained in it
MatchCron(normalizedInput) ==
    LET hits == {i \in 1..Len(cronMap) :
                    \/ Includes(normalizedInput, cronMap[i][1])
                    \/ Includes(cronMap[i][1], normalizedInput)}
    IN  IF hits = {} THEN NoCron
        ELSE cronMap[CHOOSE i \in hits : \A j \in hits : i <= j][2]

\* ChatgptGenerateCronExpression.execute
CronExecute(f, params) ==
    LET natural_language_time_description ==
            Get(params, "natural_language_time_description").v
        time_zone == Get(params, "time_zone")
        normalizedInput == toLowerCase(natural_language_time_description)
        matched == MatchCron(normalizedInput)
        converted ==
            IF /\ ~Not(time_zone)
               /\ Includes(toLowerCase(time_zone.v), <<"eastern">>)
               /\ matched = "0 8 * * *"
            THEN "0 13 * * *" ELSE matched
    IN  IF converted # NoCron THEN Effect(f, Resolved(<<"success", converted>>))
        ELSE IF \/ Includes(normalizedInput, <<"daily">>)
                \/ Includes(normalizedInput, <<"every", "day">>)
             THEN Effect(f, Resolved(<<"success", "0 8 * * *">>))
        ELSE Effect(f, Rejected(<<"Could not determine cron expression for: ">>
                                \o natural_language_time_description))

-----------------------------------------------------------------------------
(* The registry. A tool object is its name, its class and its identity.    *)

BaseTool == "CopilotQuartoTool"
Tool(name, cls, id) == [name |-> name, cls |-> cls, id |-> id]

\* CopilotQuarto.initializeTools, the modelled tools in registration order
InitialTools ==
    [i \in 1..14 |->
        LET cls == <<CreateProject, DefineFormat, DefineLayout, AddLogo,
                     ConfigureSite, RenderLocal,
                     ApplyScssTheme, ScheduleWorkflow, GenerateCron, DefineWorkflowEnv,
                     StoreSecrets, Httr2Access, DownloadFile, JsonParse>>[i]
        IN  Tool(cls, cls, i)]

\* a lookup that falls back to the first entry instead of reporting absence
LookupOrFirst(tls, name) ==
    IF \E i \in 1..Len(tls) : tls[i].name = name
    THEN CHOOSE i \in 1..Len(tls) : tls[i].name = name ELSE 1

\* Map.prototype.get: the index of the entry, 0 when absent
Lookup(tls, name) ==
    IF \E i \in 1..Len(tls) : tls[i].name = name
    THEN CHOOSE i \in 1..Len(tls) : tls[i].name = name ELSE 0

\* this.tools.set(tool.name, tool)
register(tls, tool) ==
    LET i == Lookup(tls, tool.name)
    IN  IF i = 0 THEN Append(tls, tool) ELSE [tls EXCEPT ![i] = tool]

\* Array.from(this.tools.keys())
getToolNames(tls) == [i \in 1..Len(tls) |-> tls[i].name]

\* errors.join(', ')
RECURSIVE JoinComma(_)
JoinComma(errors) ==
    IF Len(errors) <= 1 THEN errors
    ELSE <<Head(errors), ", ">> \o JoinComma(Tail(errors))

\* tool.execute(params) of the tools that run to completion without awaiting
ToolExecute(cls, f, params, fault) ==
    CASE cls = CreateProject -> ProjectExecute(f, params, fault)
      [] cls = DefineFormat -> FormatExecute(f, params)
      [] cls = DefineLayout -> LayoutExecute(f, params)
      [] cls = AddLogo -> LogoExecute(f, params)
      [] cls = ScheduleWorkflow -> ScheduleExecute(f, params)
      [] cls = RenderLocal -> RenderExecute(f, params, fault)
      [] cls = DownloadFile -> DownloadExecute(f, params, fault)
      [] cls = GenerateCron -> CronExecute(f, params)
      [] cls = ConfigureSite -> SiteExecute(f, params)
      [] OTHER -> Effect(f, Rejected(<<"execute method must be implemented by subclass">>))

\* passed: the params value each execute was invoked with
Trace(eff, validated, executed, passed) ==
    [fs |-> eff.fs, out |-> eff.out, validated |-> validated, executed |-> executed,
     passed |-> passed]

\* a dispatch that validates only after the tool has run
RegistryExecuteLate(tls, f, toolName, params, fault) ==
    LET i == Lookup(tls, toolName)
    IN  IF i = 0
        THEN Trace(Effect(f, Rejected(<<"Tool '", toolName, "' not found">>)),
                   <<>>, <<>>, <<>>)
        ELSE LET tool == tls[i]
                 validation == validateParams(tool.cls, params)
                 ran == ToolExecute(tool.cls, f, params, fault)
             IN  IF ~validation.valid
                 THEN Trace(Effect(ran.fs, Rejected(<<"Parameter validation failed: ">>
                                                    \o JoinComma(validation.errors))),
                            <<tool>>, <<tool>>, <<params>>)
                 ELSE Trace(ran, <<tool>>, <<tool>>, <<params>>)

\* params with the optional format_type filled in by the dispatcher
WithDefaults(params) ==
    IF "format_type" \in DOMAIN params THEN params
    ELSE [k \in DOMAIN params \cup {"format_type"} |->
             IF k = "format_type" THEN Str("dashboard") ELSE params[k]]

\* a dispatch that fills defaults in before it hands the params over
RegistryExecuteFilling(tls, f, toolName, params, fault) ==
    LET i == Lookup(tls, toolName)
    IN  IF i = 0
        THEN Trace(Effect(f, Rejected(<<"Tool '", toolName, "' not found">>)),
                   <<>>, <<>>, <<>>)
        ELSE LET tool == tls[i]
                 validation == validateParams(tool.cls, params)
             IN  IF ~validation.valid
                 THEN Trace(Effect(f, Rejected(<<"Parameter validation failed: ">>
                                               \o JoinComma(validation.errors))),
                            <<tool>>, <<>>, <<>>)
                 ELSE Trace(ToolExecute(tool.cls, f, WithDefaults(params), fault),
                            <<tool>>, <<tool>>, <<WithDefaults(params)>>)

\* CopilotQuartoToolRegistry.execute
RegistryExecute(tls, f, toolName, params, fault) ==
    LET i == Lookup(tls, toolName)
    IN  IF i = 0
        THEN Trace(Effect(f, Rejected(<<"Tool '", toolName, "' not found">>)),
                   <<>>, <<>>, <<>>)
        ELSE LET tool == tls[i]
                 validation == validateParams(tool.cls, params)
             IN  IF ~validation.valid
                 THEN Trace(Effect(f, Rejected(<<"Parameter validation failed: ">>
                                               \o JoinComma(validation.errors))),
                            <<tool>>, <<>>, <<>>)
                 ELSE Trace(ToolExecute(tool.cls, f, params, fault),
                            <<tool>>, <<tool>>, <<params>>)

NoCall ==
    [name |-> "", params |-> [none |-> Undefined], kind |-> "none", msg |-> <<>>,
     validated |-> <<>>, executed |-> <<>>, passed |-> <<>>, fault |-> "none"]

\* fault: the collaborator step that was made to fail in the call, if any
Ended(toolName, params, tr, fault) ==
    [name |-> toolName, params |-> params,
     kind |-> tr.out.kind, msg |-> tr.out.msg,
     validated |-> tr.validated, executed |-> tr.executed, passed |-> tr.passed,
     fault |-> fault]

\* does the call reach the execute of the tool that awaits file I/O
Awaits(tls, toolName, params) ==
    LET i == Lookup(tls, toolName)
    IN  /\ i # 0
        /\ tls[i].cls \in {ApplyScssTheme, DefineWorkflowEnv, StoreSecrets, Httr2Access,
                           JsonParse}
        /\ validateParams(tls[i].cls, params).valid

\* registry.register(tool)
Register(tool) ==
    /\ Len(registered) < Len(InitialTools) + MaxRegister
    /\ tools' = register(tools, tool)
    /\ registered' = Append(registered, tool)
    /\ UNCHANGED <<fs, calls, last, arg, ret>>

\* a dispatch that moves the tool it ran to the end of the Map
ExecuteReordering(toolName, params, fault) ==
    /\ ~Awaits(tools, toolName, params)
    /\ LET tr == RegistryExecute(tools, fs, toolName, params, fault)
           i == Lookup(tools, toolName)
       IN  /\ fs' = tr.fs
           /\ last' = Ended(toolName, params, tr, fault)
           /\ tools' = IF i = 0 THEN tools
                       ELSE SubSeq(tools, 1, i - 1) \o SubSeq(tools, i + 1, Len(tools))
                            \o <<tools[i]>>
    /\ UNCHANGED <<calls, registered, arg, ret>>

\* registry.execute(toolName, params) of a call that ends without suspending
Execute(toolName, params, fault) ==
    /\ ~Awaits(tools, toolName, params)
    /\ LET tr == RegistryExecute(tools, fs, toolName, params, fault)
       IN  /\ fs' = tr.fs
           /\ last' = Ended(toolName, params, tr, fault)
    /\ UNCHANGED <<tools, calls, registered, arg, ret>>

-----------------------------------------------------------------------------
(* Inputs. *)

DocLines == {Delim, IndentedDelim, TitleFoo, FormatHtml, NoteQuoted, SeqItem, Plain, BadPair}
Docs == SeqsUpTo(DocLines, MaxDocLines) \ {<<>>}

BodyLines == {Blank, Delim, Plain}
Bodies == SeqsUpTo(BodyLines, MaxBodyLines) \ {<<>>}

HeaderKeys == {"title", "format", "note"}
Scalars == {<<"Foo">>, <<"html">>, EmptyString, MultiLine}
Headers ==
    {h \in SeqsUpTo(HeaderKeys \X Scalars, MaxHeaderKeys) :
        \A i, j \in 1..Len(h) : h[i][1] = h[j][1] => i = j}

Idle == [op |-> "none"]
Pending == [state |-> "pending"]
Done(r) == [state |-> "done", r |-> r]

AbsentWorkflow == [exists |-> FALSE, text |-> Workflow("hand", "null", NoTrigger)]

\* .github/copilot-tools.json: absent, a text that is not JSON, a JSON array
\* of definitions (their names), or JSON of another shape
Manifest(kind, names) == [kind |-> kind, names |-> names]
NoManifest == Manifest("absent", <<>>)

\* permission bits of a file
OwnerBits == {"ur", "uw"}
GroupOtherBits == {"gr", "gw", "or", "ow"}
\* 0o600, 0o644, 0o444, and 0o666, the mode of a write that names none
Mode600 == {"ur", "uw"}
Mode644 == {"ur", "uw", "gr", "or"}
Mode444 == {"ur", "gr", "or"}
DefaultMode == OwnerBits \cup GroupOtherBits
\* process.umask(): 0o022
Umask == {"gw", "ow"}

\* the files in os.tmpdir() the tools write, under fixed names
TokenFile == "copilot_api_token.txt"
BodyFile == "copilot_api_body.json"
JsonFile == "copilot_json_data.json"
TmpNames == {TokenFile, BodyFile, JsonFile}
TmpFile(text, mode) == [exists |-> TRUE, text |-> text, mode |-> mode]
NoTmpFile == [exists |-> FALSE, text |-> <<>>, mode |-> {}]

\* .Renviron in process.cwd(): content.split('\n')
EmptyLine == <<>>
NoRenviron == [exists |-> FALSE, text |-> <<EmptyLine>>]

InitialFs(doc, wf) ==
    [docs |-> [p \in QmdPaths |-> IF p = QmdPath THEN doc ELSE Absent],
     wf |-> wf,
     yml |-> AbsentYml,
     proj |-> NoProject,
     dl |-> FALSE,
     site |-> FALSE,
     manifest |-> NoManifest,
     tmp |-> [n \in TmpNames |-> NoTmpFile],
     renviron |-> NoRenviron]

PlainDoc == <<Delim, TitleFoo, Delim, Plain>>
PlainWorkflow == Workflow("hand", "map", [kind |-> "map", push |-> TRUE, schedule |-> <<>>])

-----------------------------------------------------------------------------
(* validateParams as a function of the params object. *)

ProjectParams ==
    [project_directory_name : {Undefined, Str(""), Str(ProjectName)},
     create_git_repo : {Undefined, True, False, Str("yes")},
     use_renv : {Undefined, True, False, Str("yes")}]

ImageParams ==
    [api_key : {Undefined, Str(""), Str("sk-1")},
     prompt : {Undefined, Str(""), Str("a logo")},
     output_file_path : {Undefined, Str(""), Str("logo.png")}]

InitValidate ==
    /\ arg \in {[cls |-> CreateProject, params |-> p] : p \in ProjectParams}
               \cup {[cls |-> GenerateImage, params |-> p] : p \in ImageParams}
    /\ ret = Pending
    /\ tools = InitialTools
    /\ registered = InitialTools
    /\ fs = InitialFs(File(PlainDoc), File(PlainWorkflow))
    /\ calls = <<>>
    /\ last = NoCall

Validate ==
    /\ ret = Pending
    /\ ret' = Done(validateParams(arg.cls, arg.params))
    /\ UNCHANGED <<tools, fs, calls, registered, last, arg>>

NextValidate == Validate

SpecValidate == InitValidate /\ [][NextValidate]_vars

-----------------------------------------------------------------------------
(* parseQmdFile and serializeQmdFile as functions of their arguments. *)

Heading == <<"# Hi">>
FormatDashboard == <<<<"format", <<"dashboard">>>>>>

\* the arguments serializeQmdFile is called with
Serialized ==
    (Headers \X Bodies) \cup {<<FormatDashboard, <<Heading>>>>}

InitParse ==
    /\ arg \in {[op |-> "parse", content |-> d] : d \in Docs}
               \cup {[op |-> "roundtrip", header |-> h, body |-> b] :
                        h \in Headers, b \in Bodies}
               \cup {[op |-> "serialize", header |-> a[1], body |-> a[2]] :
                        a \in Serialized}
    /\ ret = Pending
    /\ tools = InitialTools
    /\ registered = InitialTools
    /\ fs = InitialFs(File(PlainDoc), File(PlainWorkflow))
    /\ calls = <<>>
    /\ last = NoCall

Parse ==
    /\ ret = Pending
    /\ arg.op = "parse"
    /\ ret' = Done(parseQmdFile(arg.content))
    /\ UNCHANGED <<tools, fs, calls, registered, last, arg>>

RoundTrip ==
    /\ ret = Pending
    /\ arg.op = "roundtrip"
    /\ ret' = Done(parseQmdFile(serializeQmdFile(MapOf(arg.header), arg.body)))
    /\ UNCHANGED <<tools, fs, calls, registered, last, arg>>

Serialize ==
    /\ ret = Pending
    /\ arg.op = "serialize"
    /\ ret' = Done(serializeQmdFile(MapOf(arg.header), arg.body))
    /\ UNCHANGED <<tools, fs, calls, registered, last, arg>>

NextParse == Parse \/ RoundTrip \/ Serialize

SpecParse == InitParse /\ [][NextParse]_vars

-----------------------------------------------------------------------------
(* Properties of validateParams. *)

\* the required fields in declaration order, each with its error message
Declared(cls) ==
    IF cls = CreateProject
    THEN << <<"project_directory_name", "project_directory_name is required">>,
            <<"create_git_repo", "create_git_repo must be a boolean">>,
            <<"use_renv", "use_renv must be a boolean">> >>
    ELSE << <<"api_key", "api_key is required">>,
            <<"prompt", "prompt is required">>,
            <<"output_file_path", "output_file_path is required">> >>

\* every field is either not supplied or supplied with a value of its kind
WellFormed(a) ==
    \A i \in 1..3 :
        LET x == Get(a.params, Declared(a.cls)[i][1])
        IN  \/ x = Undefined
            \/ x.t = "boolean"
            \/ x.t = "string" /\ x.v \notin {"", "yes"}

RECURSIVE MessagesOfMissing(_, _)
MessagesOfMissing(decl, params) ==
    IF decl = <<>> THEN <<>>
    ELSE (IF Get(params, Head(decl)[1]) = Undefined THEN <<Head(decl)[2]>> ELSE <<>>)
         \o MessagesOfMissing(Tail(decl), params)

\* C3: validateParams reports every violated field, one entry each, in
\* declaration order (three entries for {}), and valid holds exactly when
\* the list of errors is empty.
C3_CompleteValidationErrors ==
    ret.state = "done" =>
        /\ ret.r.valid = (ret.r.errors = <<>>)
        /\ WellFormed(arg) => ret.r.errors = MessagesOfMissing(Declared(arg.cls), arg.params)

C3_Witness ==
    /\ ret.state = "done"
    /\ \A i \in 1..3 : Get(arg.params, Declared(arg.cls)[i][1]) = Undefined
    /\ Len(ret.r.errors) = 3
    /\ ~ret.r.valid

-----------------------------------------------------------------------------
(* Properties of the front-matter engine. *)

DelimiterCount(content) == Cardinality({i \in 1..Len(content) : Trim(content[i]) = Delim})

\* C5: a text with fewer than two delimiter lines parses without throwing
\* to an empty header and a body equal to the whole text.
C5_HeaderAbsentSafety ==
    (ret.state = "done" /\ arg.op = "parse" /\ DelimiterCount(arg.content) < 2) =>
        ret.r = [threw |-> FALSE, frontMatter |-> EmptyMap, body |-> arg.content]

C5_Witness ==
    /\ ret.state = "done"
    /\ arg.op = "parse"
    /\ DelimiterCount(arg.content) = 1
    /\ Len(arg.content) > 1
    /\ ret.r.body = arg.content

\* no line of the serialized header is a delimiter line
SerializesClean(h) == \A l \in Range(YamlStringify(MapOf(h))) : Trim(l) # Delim

\* C6: parsing the serialization of a header none of whose values puts a
\* delimiter line into the output, with any body, gives back that header
\* and that body.
C6_RoundTrip ==
    (ret.state = "done" /\ arg.op = "roundtrip" /\ SerializesClean(arg.header)) =>
        ret.r = [threw |-> FALSE, frontMatter |-> MapOf(arg.header), body |-> arg.body]

C6_Witness ==
    /\ ret.state = "done"
    /\ arg.op = "roundtrip"
    /\ Len(arg.header) = 2
    /\ arg.body = <<Blank, Delim>>
    /\ ret.r.body = arg.body
    /\ ret.r.frontMatter.pairs = arg.header

-----------------------------------------------------------------------------
(* The registry in use: a CopilotQuarto instance, further register calls   *)
(* on its registry, and execute calls that end without suspending.         *)

UnknownName == "does_not_exist"
CustomName == "custom_tool"

\* the tool objects a caller may hand to register next: a stand-in that
\* carries the name of a registered tool, and a tool with a new name
Candidates ==
    {Tool(DefineFormat, BaseTool, Len(registered) + 1),
     Tool(CustomName, BaseTool, Len(registered) + 1)}

NoParams == [none |-> Undefined]

RegistryParams ==
    {NoParams,
     [project_directory_name |-> Str(ProjectName), create_git_repo |-> True,
      use_renv |-> False],
     [project_directory_name |-> Str(ProjectName), create_git_repo |-> Str("yes"),
      use_renv |-> False],
     [qmd_file_path |-> Str(QmdPath), format_type |-> Str("html")],
     [qmd_file_path |-> Str(QmdPath), layout_structure |-> Str("sidebar")],
     [qmd_file_path |-> Str(MissingPath), logo_image_path |-> Str("logo.png")],
     [quarto_yml_path |-> Str(YmlPath)],
     [workflow_yml_path |-> Str(WorkflowPath), cron_expression |-> Str("0 8 * * *")]}

RegistryNames ==
    {CreateProject, DefineFormat, DefineLayout, AddLogo, ApplyScssTheme,
     ScheduleWorkflow, CustomName, UnknownName}

\* the calls made: every name with no parameters and with the parameters
\* of its own tool, the unknown name with every parameter object
RegistryCalls ==
    {c \in RegistryNames \X RegistryParams :
        \/ c[1] = UnknownName
        \/ c[2] = NoParams
        \/ c[1] = CreateProject /\ "use_renv" \in DOMAIN c[2]
        \/ c[1] = DefineFormat /\ "format_type" \in DOMAIN c[2]
        \/ c[1] = DefineLayout /\ "layout_structure" \in DOMAIN c[2]
        \/ c[1] = AddLogo /\ "logo_image_path" \in DOMAIN c[2]
        \/ c[1] = ApplyScssTheme /\ "quarto_yml_path" \in DOMAIN c[2]
        \/ c[1] = ScheduleWorkflow /\ "cron_expression" \in DOMAIN c[2]}

\* the steps of a tool that reach outside the process
FaultsOf(toolName) ==
    CASE toolName = CreateProject -> Faults
      [] toolName = RenderLocal -> RenderFaults
      [] toolName = DownloadFile -> DownloadFaults
      [] OTHER -> {"none"}

InitRegistry ==
    /\ tools = InitialTools
    /\ registered = InitialTools
    /\ fs = InitialFs(File(PlainDoc), File(PlainWorkflow))
    /\ calls = <<>>
    /\ last = NoCall
    /\ arg = Idle
    /\ ret = Pending

NextRegistry ==
    \/ \E tool \in Candidates : Register(tool)
    \/ \E c \in RegistryCalls, fault \in Faults :
          fault \in FaultsOf(c[1]) /\ Execute(c[1], c[2], fault)

SpecRegistry == InitRegistry /\ [][NextRegistry]_vars

-----------------------------------------------------------------------------
(* Properties of the registry. *)

RegisteredNames == {tools[i].name : i \in 1..Len(tools)}

\* the step is a call of registry.execute that has ended: its outcome or
\* its effect shows, and it is no register call
CallEnds == (last' # last \/ fs' # fs) /\ registered' = registered

\* C1: execute of a name that is not registered rejects with a message
\* that contains the name, invokes no validateParams and no execute, and
\* changes neither the files nor the registry, whatever the params.
C1_UnknownToolRejected ==
    [][(CallEnds /\ last'.name \notin RegisteredNames) =>
          /\ last'.kind = "rejected"
          /\ last'.name \in Range(last'.msg)
          /\ last'.validated = <<>>
          /\ last'.executed = <<>>
          /\ fs' = fs
          /\ tools' = tools]_vars

C1_Witness ==
    /\ last.name = UnknownName
    /\ last.params # NoParams
    /\ last.kind = "rejected"
    /\ last.msg = <<"Tool '", UnknownName, "' not found">>

\* the errors a validation message carries, in order
ErrorsIn(msg) == [i \in 1..(Len(msg) \div 2) |-> msg[2 * i]]

\* C2: execute of a registered tool with params its validateParams rejects
\* fails with 'Parameter validation failed' carrying every validation error
\* in order, never invokes the tool's execute and leaves the files alone.
C2_InvalidParamsNeverExecute ==
    [][(CallEnds /\ last'.name \in RegisteredNames
        /\ ~validateParams(tools[Lookup(tools, last'.name)].cls, last'.params).valid) =>
          /\ last'.kind = "rejected"
          /\ last'.msg[1] = "Parameter validation failed: "
          /\ ErrorsIn(last'.msg)
               = validateParams(tools[Lookup(tools, last'.name)].cls, last'.params).errors
          /\ last'.executed = <<>>
          /\ fs' = fs]_vars

C2_Witness ==
    /\ last.name = CreateProject
    /\ last.kind = "rejected"
    /\ last.msg[1] = "Parameter validation failed: "
    /\ Len(ErrorsIn(last.msg)) = 3
    /\ ~fs.proj.exists

\* the first tool object that was registered under the name
FirstRegistered(name) ==
    registered[CHOOSE j \in 1..Len(registered) :
                  /\ registered[j].name = name
                  /\ \A k \in 1..(j - 1) : registered[k].name # name]

\* C4: the tool stored under a name is the first one registered under that
\* name; a later registration with the name never replaces it.
C4_FirstRegistrationKept ==
    \A i \in 1..Len(tools) : tools[i] = FirstRegistered(tools[i].name)

-----------------------------------------------------------------------------
(* The document tools at work on one .qmd file and one workflow file.      *)

FileLines == {Delim, TitleFoo, NoteQuoted, SeqItem, Plain, BadPair}
SampleDocs ==
    {PlainDoc,
     <<IndentedDelim, TitleFoo, Delim, Plain>>,
     <<Plain, Delim, TitleFoo, FormatHtml, Delim, Plain, Delim, Plain>>}
FileTexts == (SeqsUpTo(FileLines, MaxFileLines) \ {<<>>}) \cup SampleDocs

DocCalls ==
    {<<DefineFormat, [qmd_file_path |-> Str(QmdPath)]>>,
     <<DefineFormat, [qmd_file_path |-> Str(QmdPath), format_type |-> Str("html")]>>,
     <<DefineFormat, [qmd_file_path |-> Str(MissingPath)]>>,
     <<DefineLayout, [qmd_file_path |-> Str(QmdPath), layout_structure |-> Str("sidebar")]>>,
     <<AddLogo, [qmd_file_path |-> Str(QmdPath), logo_image_path |-> Str("logo.png")]>>,
     <<ScheduleWorkflow, [workflow_yml_path |-> Str(WorkflowPath),
                          cron_expression |-> Str("0 8 * * *")]>>}

InitDoc ==
    /\ tools = InitialTools
    /\ registered = InitialTools
    /\ fs \in {InitialFs(File(d), AbsentWorkflow) : d \in FileTexts}
              \cup {InitialFs(Absent, File(w)) : w \in WorkflowValues}
    /\ calls = <<>>
    /\ last = NoCall
    /\ arg = Idle
    /\ ret = Pending

NextDoc == \E c \in DocCalls : Execute(c[1], c[2], "none")

SpecDoc == InitDoc /\ [][NextDoc]_vars

DashboardTools == {DefineFormat, DefineLayout, AddLogo}

\* C7: two executions of quarto_define_dashboard_format in succession with
\* the same format_type: the second leaves the file as the first left it.
C7_FormatIdempotent ==
    [][(/\ CallEnds
        /\ last.name = DefineFormat /\ last.kind = "resolved"
        /\ last'.name = DefineFormat /\ last'.kind = "resolved"
        /\ last'.params = last.params) =>
          fs'.docs = fs.docs]_vars

\* the header keys a dashboard tool sets
KeysSetBy(toolName) ==
    CASE toolName = DefineFormat -> {"format"}
      [] toolName = DefineLayout -> {"format", "layout", "orientation"}
      [] toolName = AddLogo -> {"logo"}
      [] OTHER -> {}

\* C8: a dashboard tool that succeeds on a document whose header is a
\* mapping leaves every header key it does not set with its value, and
\* leaves the body identical.
C8_NonDestructiveMerge ==
    [][(/\ CallEnds
        /\ last'.name \in DashboardTools /\ last'.kind = "resolved"
        /\ parseQmdFile(fs.docs[QmdPath].text).frontMatter.kind = "map") =>
          LET before == parseQmdFile(fs.docs[QmdPath].text)
              after == parseQmdFile(fs'.docs[QmdPath].text)
          IN  /\ after.body = before.body
              /\ \A i \in 1..Len(before.frontMatter.pairs) :
                    \/ before.frontMatter.pairs[i][1] \in KeysSetBy(last'.name)
                    \/ before.frontMatter.pairs[i] \in Range(after.frontMatter.pairs)]_vars

\* C10: a document-mutation tool that rejects because the header cannot be
\* parsed or merged leaves every file byte-identical.
C10_NoPartialWrite ==
    [][(CallEnds /\ last'.kind = "rejected"
        /\ last'.msg \in {ParseFailure.msg, TypeFailure.msg}) =>
          fs' = fs]_vars

C10_Witness ==
    /\ last.name = DefineFormat
    /\ last.kind = "rejected"
    /\ last.msg = ParseFailure.msg
    /\ fs.docs[QmdPath].text = <<Delim, BadPair, Delim>>

-----------------------------------------------------------------------------
(* quarto_apply_scss_theme: an invocation suspends at each await, so the   *)
(* steps of several invocations interleave. A frame is one invocation.     *)

Frame(params) ==
    [cls |-> ApplyScssTheme, params |-> params, pc |-> "exists",
     content |-> AbsentYml.text, seen |-> 0,
     updated |-> AbsentYml.text, kind |-> "pending", order |-> 0]

\* one invocation of github_actions_define_workflow_env
EnvFrame(params) ==
    [cls |-> DefineWorkflowEnv, params |-> params, pc |-> "wfexists",
     content |-> AbsentWorkflow.text, seen |-> 0,
     updated |-> AbsentWorkflow.text, kind |-> "pending", order |-> 0]

\* one invocation of r_json_parse, r_package_httr2_api_access or
\* r_store_local_secrets_renviron, up to its first await
AsyncFrame(cls, params) ==
    [cls |-> cls, params |-> params,
     pc |-> CASE cls = JsonParse -> "jsonwrite"
              [] cls = Httr2Access -> "token"
              [] OTHER -> "renvexists",
     content |-> <<>>, seen |-> 0, updated |-> <<>>, kind |-> "pending", order |-> 0]

Writes == {calls[i].order : i \in 1..Len(calls)}
LastOrder == CHOOSE n \in Writes \cup {0} : \A m \in Writes : m <= n

Settled(i, out) ==
    /\ calls' = [calls EXCEPT ![i].pc = "done", ![i].kind = out.kind]
    /\ last' = [name |-> calls[i].cls, params |-> calls[i].params,
                kind |-> out.kind, msg |-> out.msg,
                validated |-> <<tools[Lookup(tools, calls[i].cls)]>>,
                executed |-> <<tools[Lookup(tools, calls[i].cls)]>>,
                passed |-> <<calls[i].params>>, fault |-> "none"]

\* registry.execute up to the first await of the tool
Begin(toolName, params) ==
    /\ Awaits(tools, toolName, params)
    /\ Len(calls) < MaxCalls
    /\ calls' = Append(calls, LET cls == tools[Lookup(tools, toolName)].cls
                               IN  CASE cls = ApplyScssTheme -> Frame(params)
                                     [] cls = DefineWorkflowEnv -> EnvFrame(params)
                                     [] OTHER -> AsyncFrame(cls, params))
    /\ UNCHANGED <<tools, fs, registered, last, arg, ret>>

\* await fs.pathExists(quarto_yml_path)
ScssExists(i) ==
    /\ calls[i].pc = "exists"
    /\ LET quarto_yml_path == Get(calls[i].params, "quarto_yml_path").v
       IN  IF quarto_yml_path = YmlPath /\ fs.yml.exists
           THEN /\ calls' = [calls EXCEPT ![i].pc = "read"]
                /\ UNCHANGED last
           ELSE Settled(i, Rejected(<<"Quarto YAML file not found: ", quarto_yml_path>>))
    /\ UNCHANGED <<tools, fs, registered, arg, ret>>

\* await fs.readFile, then the synchronous update up to fs.writeFile
ScssRead(i) ==
    /\ calls[i].pc = "read"
    /\ LET r == ScssApply(fs.yml.text, Get(calls[i].params, "scss_file_path").v)
       IN  IF r.threw THEN Settled(i, r.out)
           ELSE /\ calls' = [calls EXCEPT ![i].pc = "write",
                                          ![i].content = fs.yml.text,
                                          ![i].seen = LastOrder,
                                          ![i].updated = StringifyConfig(r.config)]
                /\ UNCHANGED last
    /\ UNCHANGED <<tools, fs, registered, arg, ret>>

\* the write of fs.writeFile reaches the file
ScssWrite(i) ==
    /\ calls[i].pc = "write"
    /\ fs' = [fs EXCEPT !.yml = File(calls[i].updated)]
    /\ calls' = [calls EXCEPT ![i].pc = "settle", ![i].order = LastOrder + 1]
    /\ UNCHANGED <<tools, registered, last, arg, ret>>

\* await fs.writeFile returns and execute resolves
ScssSettle(i) ==
    /\ calls[i].pc = "settle"
    /\ Settled(i, Resolved(<<"success">>))
    /\ UNCHANGED <<tools, fs, registered, arg, ret>>

YmlTexts ==
    {Config("hand", k, "absent", "absent", NoTheme) : k \in {"error", "null", "scalar", "seq", "map"}}
    \cup {Config("hand", "map", "string", "absent", NoTheme),
          Config("hand", "map", "map", "string", NoTheme)}
    \cup {Config("hand", "map", "map", "map", t) :
            t \in {NoTheme, ThemeString("cosmo"), ThemeString("a.scss"),
                   ThemeList(<<"cosmo">>), ThemeList(<<"cosmo", "a.scss">>), ThemeObject}}

ScssParams ==
    {[quarto_yml_path |-> Str(YmlPath), scss_file_path |-> Str(p)] : p \in {"a.scss", "b.scss"}}
    \cup {[quarto_yml_path |-> Str("missing.yml"), scss_file_path |-> Str("a.scss")]}

InitScss ==
    /\ tools = InitialTools
    /\ registered = InitialTools
    /\ fs \in {[InitialFs(File(PlainDoc), File(PlainWorkflow)) EXCEPT !.yml = File(y)] :
                  y \in YmlTexts}
    /\ calls = <<>>
    /\ last = NoCall
    /\ arg = Idle
    /\ ret = Pending

NextScss ==
    \/ \E params \in ScssParams : Begin(ApplyScssTheme, params)
    \/ \E i \in 1..Len(calls) : ScssExists(i)
    \/ \E i \in 1..Len(calls) : ScssRead(i)
    \/ \E i \in 1..Len(calls) : ScssWrite(i)
    \/ \E i \in 1..Len(calls) : ScssSettle(i)

SpecScss == InitScss /\ [][NextScss]_vars

-----------------------------------------------------------------------------
(* Concurrent invocations of quarto_apply_scss_theme. *)

ScssPath(i) == Get(calls[i].params, "scss_file_path").v
Succeeded(i) == calls[i].pc = "done" /\ calls[i].kind = "resolved"

\* j wrote last, and read the file before i's write reached it
Overwrites(i, j) ==
    /\ i # j
    /\ Succeeded(i) /\ Succeeded(j)
    /\ calls[j].order = LastOrder
    /\ calls[j].seen < calls[i].order
    /\ calls[i].order < calls[j].order
    /\ ScssPath(i) # ScssPath(j)
    /\ calls[j].content.theme.kind = "list"
    /\ ScssPath(i) \notin Range(calls[j].content.theme.items)
    /\ ScssPath(j) \notin Range(calls[j].content.theme.items)

\* C9: when two invocations for different SCSS files on the same
\* _quarto.yml both resolve, and the one that wrote last had read the file
\* before the other's write, the file holds the theme list the last writer
\* read plus its own path only: the other invocation's path is not in it.
C9_LostUpdate ==
    \A i, j \in 1..Len(calls) :
        Overwrites(i, j) =>
            /\ fs.yml.text.theme =
                   ThemeList(Append(calls[j].content.theme.items, ScssPath(j)))
            /\ ScssPath(i) \notin Range(fs.yml.text.theme.items)

\* both invocations resolved with success and the file lists only b.scss
C9_Witness ==
    /\ Len(calls) >= 2
    /\ Overwrites(1, 2)
    /\ ScssPath(1) = "a.scss" /\ ScssPath(2) = "b.scss"
    /\ fs.yml.text.theme = ThemeList(<<"cosmo", "b.scss">>)

-----------------------------------------------------------------------------
(* What a successful quarto_define_dashboard_format leaves in the file. *)

\* the header block of a text read back: a mapping that has key k with value v
HeaderHas(text, k, v) ==
    LET p == parseQmdFile(text)
    IN  /\ frontMatterStart(text) # -1 /\ frontMatterEnd(text) # -1
        /\ ~p.threw
        /\ p.frontMatter.kind = "map"
        /\ \E i \in 1..Len(p.frontMatter.pairs) : p.frontMatter.pairs[i] = <<k, v>>

\* C11: when quarto_define_dashboard_format resolves, the file read back
\* has a header block that is a mapping whose format is the format_type of
\* the call (dashboard when none was given).
C11_FormatSuccessSetsFormat ==
    [][(CallEnds /\ last'.name = DefineFormat /\ last'.kind = "resolved") =>
          HeaderHas(fs'.docs[Get(last'.params, "qmd_file_path").v].text, "format",
                    <<OrDefault(Get(last'.params, "format_type"), "dashboard").v>>)]_vars

-----------------------------------------------------------------------------
(* The shape of a document. *)

\* the delimiter lines of a text, by position
DelimiterLines(text) == {i \in 1..Len(text) : Trim(text[i]) = Delim}

\* i and j are the first and the second delimiter line of the text
FirstTwo(text, i, j) ==
    /\ i \in DelimiterLines(text) /\ j \in DelimiterLines(text)
    /\ i < j
    /\ \A k \in DelimiterLines(text) : k = i \/ k >= j

\* C12: the header of a parsed text is the YAML between its first and its
\* second delimiter line and the body is the text after the second one;
\* '---\ntitle: Foo\n---\nBody text' parses to {title: Foo} and 'Body text';
\* a serialized document is a delimiter line, the header lines, a delimiter
\* line and the body as given, so {format: dashboard} with '# Hi' gives
\* '---\nformat: dashboard\n---\n# Hi'.
C12_DocumentShape ==
    /\ (ret # Pending /\ arg.op = "parse") =>
          /\ \A i, j \in 1..Len(arg.content) :
                FirstTwo(arg.content, i, j) =>
                   /\ ret.r.body = JoinLines(SubSeq(arg.content, j + 1, Len(arg.content)))
                   /\ \/ ret.r.threw
                      \/ ret.r.frontMatter = OrEmpty(YamlParse(SubSeq(arg.content, i + 1, j - 1)))
          /\ arg.content = PlainDoc =>
                /\ ~ret.r.threw
                /\ ret.r.frontMatter = MapOf(<<<<"title", <<"Foo">>>>>>)
                /\ ret.r.body = <<Plain>>
    /\ (ret # Pending /\ arg.op = "serialize") =>
          /\ Len(ret.r) >= Len(arg.body) + 2
          /\ ret.r[1] = Delim
          /\ ret.r[Len(ret.r) - Len(arg.body)] = Delim
          /\ SubSeq(ret.r, Len(ret.r) - Len(arg.body) + 1, Len(ret.r)) = arg.body
          /\ (arg.header = FormatDashboard /\ arg.body = <<Heading>>) =>
                ret.r = <<Delim, <<"format", ": ", "dashboard">>, Delim, Heading>>

C12_Witness ==
    /\ ret # Pending
    /\ arg.op = "serialize"
    /\ arg.header = FormatDashboard
    /\ arg.body = <<Heading>>
    /\ ret.r = <<Delim, <<"format", ": ", "dashboard">>, Delim, Heading>>

\* C13: an empty header mapping serializes to the two delimiter lines with
\* nothing between them, followed by the body.
C13_EmptyHeaderEmitsNothing ==
    (ret # Pending /\ arg.op = "serialize" /\ arg.header = <<>>) =>
        ret.r = <<Delim, Delim>> \o arg.body

-----------------------------------------------------------------------------
(* github_actions_define_workflow_env, step by step, and every document    *)
(* tool at work on files that may or may not exist.                        *)

\* await fs.pathExists(workflow_yml_path)
EnvExists(i) ==
    /\ calls[i].pc = "wfexists"
    /\ LET workflow_yml_path == Get(calls[i].params, "workflow_yml_path").v
       IN  IF workflow_yml_path = WorkflowPath /\ fs.wf.exists
           THEN /\ calls' = [calls EXCEPT ![i].pc = "wfread"]
                /\ UNCHANGED last
           ELSE Settled(i, Rejected(<<"Workflow file not found: ", workflow_yml_path>>))
    /\ UNCHANGED <<tools, fs, registered, arg, ret>>

\* await fs.readFile, then the synchronous update up to fs.writeFile
EnvRead(i) ==
    /\ calls[i].pc = "wfread"
    /\ LET r == EnvApply(fs.wf.text, Get(calls[i].params, "r_script_env_name").v)
       IN  IF r.threw THEN Settled(i, r.out)
           ELSE /\ calls' = [calls EXCEPT ![i].pc = "wfwrite",
                                          ![i].content = fs.wf.text,
                                          ![i].seen = LastOrder,
                                          ![i].updated = StringifyWorkflow(r.workflow)]
                /\ UNCHANGED last
    /\ UNCHANGED <<tools, fs, registered, arg, ret>>

\* the write of fs.writeFile reaches the file
EnvWrite(i) ==
    /\ calls[i].pc = "wfwrite"
    /\ fs' = [fs EXCEPT !.wf = File(calls[i].updated)]
    /\ calls' = [calls EXCEPT ![i].pc = "wfsettle", ![i].order = LastOrder + 1]
    /\ UNCHANGED <<tools, registered, last, arg, ret>>

\* await fs.writeFile returns and execute resolves
EnvSettle(i) ==
    /\ calls[i].pc = "wfsettle"
    /\ Settled(i, Resolved(<<"success">>))
    /\ UNCHANGED <<tools, fs, registered, arg, ret>>

PlainConfig == Config("hand", "map", "map", "map", ThemeString("cosmo"))

\* the tools that rewrite a file, each called on its file
FileCalls ==
    {<<DefineFormat, [qmd_file_path |-> Str(QmdPath)]>>,
     <<DefineLayout, [qmd_file_path |-> Str(QmdPath), layout_structure |-> Str("sidebar")]>>,
     <<AddLogo, [qmd_file_path |-> Str(QmdPath), logo_image_path |-> Str("logo.png")]>>,
     <<ScheduleWorkflow, [workflow_yml_path |-> Str(WorkflowPath),
                          cron_expression |-> Str("0 8 * * *")]>>,
     <<ApplyScssTheme, [quarto_yml_path |-> Str(YmlPath), scss_file_path |-> Str("a.scss")]>>,
     <<DefineWorkflowEnv, [workflow_yml_path |-> Str(WorkflowPath),
                           r_script_env_name |-> Str("API_KEY"),
                           github_secret_name |-> Str("SECRET")]>>}

InitFiles ==
    /\ tools = InitialTools
    /\ registered = InitialTools
    /\ fs \in {[docs |-> [p \in QmdPaths |-> IF p = QmdPath THEN d ELSE Absent],
                wf |-> w, yml |-> y, proj |-> NoProject,
                dl |-> FALSE, site |-> FALSE] :
                  d \in {File(PlainDoc), Absent},
                  w \in {File(PlainWorkflow), AbsentWorkflow},
                  y \in {File(PlainConfig), AbsentYml}}
    /\ calls = <<>>
    /\ last = NoCall
    /\ arg = Idle
    /\ ret = Pending

\* a caller that awaits each invocation before it issues the next one
Awaited == \A i \in 1..Len(calls) : calls[i].pc = "done"

NextFiles ==
    \/ \E c \in FileCalls : Awaited /\ Execute(c[1], c[2], "none")
    \/ \E c \in FileCalls : Awaited /\ Begin(c[1], c[2])
    \/ \E i \in 1..Len(calls) : ScssExists(i)
    \/ \E i \in 1..Len(calls) : ScssRead(i)
    \/ \E i \in 1..Len(calls) : ScssWrite(i)
    \/ \E i \in 1..Len(calls) : ScssSettle(i)
    \/ \E i \in 1..Len(calls) : EnvExists(i)
    \/ \E i \in 1..Len(calls) : EnvRead(i)
    \/ \E i \in 1..Len(calls) : EnvWrite(i)
    \/ \E i \in 1..Len(calls) : EnvSettle(i)

SpecFiles == InitFiles /\ [][NextFiles]_vars


FileTools ==
    {DefineFormat, DefineLayout, AddLogo, ScheduleWorkflow, ApplyScssTheme, DefineWorkflowEnv}

\* the path parameter of a document-mutation tool
TargetPath(toolName, params) ==
    CASE toolName \in DashboardTools -> Get(params, "qmd_file_path").v
      [] toolName = ApplyScssTheme -> Get(params, "quarto_yml_path").v
      [] OTHER -> Get(params, "workflow_yml_path").v

\* is there a file at the path the call names
TargetExists(f, toolName, params) ==
    LET path == TargetPath(toolName, params)
    IN  CASE toolName \in DashboardTools -> path \in DOMAIN f.docs /\ f.docs[path].exists
          [] toolName = ApplyScssTheme -> path = YmlPath /\ f.yml.exists
          [] OTHER -> path = WorkflowPath /\ f.wf.exists

\* C14: a document-mutation tool called on a path where no file exists
\* rejects with a message that names the path, and no file exists at the
\* path afterwards: no file is created or changed.
C14_MissingFileRejected ==
    [][(/\ last' # last
        /\ last'.name \in FileTools
        /\ last'.executed # <<>>
        /\ ~TargetExists(fs, last'.name, last'.params)) =>
          /\ last'.kind = "rejected"
          /\ TargetPath(last'.name, last'.params) \in Range(last'.msg)
          /\ ~TargetExists(fs', last'.name, last'.params)
          /\ fs' = fs]_vars

C14_Witness ==
    /\ last.name = DefineWorkflowEnv
    /\ last.kind = "rejected"
    /\ last.msg = <<"Workflow file not found: ", WorkflowPath>>
    /\ ~fs.wf.exists
    /\ fs.docs[QmdPath].exists

-----------------------------------------------------------------------------
(* The registry under execute calls. *)

\* CopilotQuarto.getAvailableTools()
getAvailableTools == getToolNames(tools)

\* C15: no execute call, whatever its outcome, changes the registry: the
\* names in registration order and the tool object under every name stay,
\* so with no further register call they are those of the construction.
C15_RegistryReadOnly ==
    [][/\ registered' = registered =>
            /\ tools' = tools
            /\ getToolNames(tools') = getAvailableTools
       /\ registered' = InitialTools =>
            /\ tools' = InitialTools
            /\ getToolNames(tools') = getToolNames(InitialTools)]_vars

\* a call failed inside its tool after another one had succeeded
C15_Witness ==
    /\ last.kind = "rejected"
    /\ last.executed # <<>>
    /\ fs.proj.exists
    /\ registered = InitialTools
    /\ getAvailableTools = getToolNames(InitialTools)


\* C16: a call with a registered name and params that pass validation
\* invokes the tool's execute once, with the params value of the call, and
\* ends as the tool's execute ends: the same result, the same error, the
\* same effect on the files.
C16_VerbatimDispatch ==
    [][(/\ CallEnds
        /\ last' # last
        /\ last'.name \in RegisteredNames
        /\ validateParams(tools[Lookup(tools, last'.name)].cls, last'.params).valid) =>
          LET tool == tools[Lookup(tools, last'.name)]
          IN  /\ last'.executed = <<tool>>
              /\ last'.passed = <<last'.params>>
              /\ \E fault \in FaultsOf(last'.name) :
                    LET ran == ToolExecute(tool.cls, fs, last'.params, fault)
                    IN  /\ last'.kind = ran.out.kind
                        /\ last'.msg = ran.out.msg
                        /\ fs' = ran.fs]_vars

\* a tool resolved and another call then ended with the tool's own error
C16_Witness ==
    /\ last.name = AddLogo
    /\ last.kind = "rejected"
    /\ last.msg = NotExist(MissingPath).msg
    /\ last.passed = <<[qmd_file_path |-> Str(MissingPath), logo_image_path |-> Str("logo.png")]>>
    /\ fs.docs[QmdPath].text # PlainDoc

-----------------------------------------------------------------------------
(* The tools that call out, with any one of their outside steps failing.   *)

ExistingProject == [exists |-> TRUE, files |-> {"keep.txt"}]

CollabCalls ==
    {<<CreateProject, [project_directory_name |-> Str(ProjectName),
                       create_git_repo |-> g, use_renv |-> r]>> :
        g \in {True, False}, r \in {True, False}}
    \cup {<<RenderLocal, NoParams>>,
          <<RenderLocal, [qmd_file_path |-> Str(QmdPath)]>>,
          <<DownloadFile, [url |-> Str("https://example.org/logo.png"),
                           local_path |-> Str("logo.png")]>>}

InitCollab ==
    /\ tools = InitialTools
    /\ registered = InitialTools
    /\ fs \in {[InitialFs(File(PlainDoc), File(PlainWorkflow)) EXCEPT !.proj = d] :
                  d \in {NoProject, ExistingProject}}
    /\ calls = <<>>
    /\ last = NoCall
    /\ arg = Idle
    /\ ret = Pending

NextCollab ==
    \E c \in CollabCalls :
        \E fault \in FaultsOf(c[1]) : Execute(c[1], c[2], fault)

SpecCollab == InitCollab /\ [][NextCollab]_vars

\* did an outside step of the call that ended run and fail
StepFailed(f, call) ==
    CASE call.name = CreateProject ->
            /\ ~f.proj.exists
            /\ \/ call.fault = "write"
               \/ call.fault = "git" /\ Get(call.params, "create_git_repo") = True
               \/ call.fault = "renv" /\ Get(call.params, "use_renv") = True
      [] OTHER -> call.fault # "none"

\* C17: a call in which an outside step of the tool has failed ends as a
\* rejection; it never resolves.
C17_NoCatchAndContinue ==
    [][(last' # last /\ last'.executed # <<>> /\ StepFailed(fs, last')) =>
          last'.kind = "rejected"]_vars

\* C18: project creation on a directory that exists rejects with
\* 'already exists' and leaves the directory and its files as they were.
C18_ExistingProjectKept ==
    [][(/\ last' # last
        /\ last'.name = CreateProject
        /\ last'.executed # <<>>
        /\ fs.proj.exists) =>
          /\ last'.kind = "rejected"
          /\ last'.msg = <<"Directory '", ProjectName, "' already exists">>
          /\ fs'.proj = fs.proj
          /\ fs' = fs]_vars

\* the second of two identical calls has failed and the project of the
\* first one is complete
C18_Witness ==
    /\ last.name = CreateProject
    /\ last.kind = "rejected"
    /\ last.msg = <<"Directory '", ProjectName, "' already exists">>
    /\ last.fault = "git"
    /\ Get(last.params, "create_git_repo") = True
    /\ fs.proj.files = {"_quarto.yml", "index.qmd", "styles.css", "README.md",
                        ".git", ".gitignore"}

\* C19: project creation on a directory that does not exist either
\* resolves with the directory holding index.qmd, _quarto.yml, styles.css,
\* README.md (and .git, .gitignore when create_git_repo is true), or
\* rejects with the directory not existing.
C19_AllOrNothing ==
    [][(/\ last' # last
        /\ last'.name = CreateProject
        /\ last'.executed # <<>>
        /\ ~fs.proj.exists) =>
          \/ /\ last'.kind = "resolved"
             /\ fs'.proj.exists
             /\ {"index.qmd", "_quarto.yml", "styles.css", "README.md"} \subseteq fs'.proj.files
             /\ Get(last'.params, "create_git_repo") = True =>
                   {".git", ".gitignore"} \subseteq fs'.proj.files
          \/ /\ last'.kind = "rejected"
             /\ ~fs'.proj.exists]_vars

\* renv failed after git init had succeeded, and no directory is left
C19_Witness ==
    /\ last.name = CreateProject
    /\ last.kind = "rejected"
    /\ last.fault = "renv"
    /\ Get(last.params, "create_git_repo") = True
    /\ Get(last.params, "use_renv") = True
    /\ ~fs.proj.exists

-----------------------------------------------------------------------------
(* chatgpt_generate_cron_expression called with a description and a zone.  *)

EveryDayAt8AM == <<"every", "day", "at", "8", "AM">>

CronWords == {"every", "day", "daily", "at", "8", "AM", "noon"}

Descriptions ==
    SeqsUpTo(CronWords, MaxWords)
    \cup {EveryDayAt8AM,
          <<"every", "day", "at", "08:00", "ET">>,
          <<"Daily", "at", "8", "AM">>,
          <<"daily", "at", "8:00">>,
          <<"every", "morning", "at", "8">>}

TimeZones ==
    {Undefined, Text(<<>>), Text(<<"UTC">>), Text(<<"Eastern", "Daylight", "Time">>),
     Text(<<"US", "EASTERN">>)}

InitCron ==
    /\ tools = InitialTools
    /\ registered = InitialTools
    /\ fs = InitialFs(File(PlainDoc), File(PlainWorkflow))
    /\ calls = <<>>
    /\ last = NoCall
    /\ arg \in {[op |-> "cron",
                  params |-> [natural_language_time_description |-> Text(d),
                              time_zone |-> z]] :
                    d \in Descriptions, z \in TimeZones}
    /\ ret = Pending

\* the one call of the run
NextCron == last = NoCall /\ Execute(GenerateCron, arg.params, "none")

SpecCron == InitCron /\ [][NextCron]_vars

\* does the call name a zone whose name contains 'eastern' in any case
Eastern(z) == z.t = "text" /\ \E i \in 1..Len(z.v) : z.v[i] \in {"Eastern", "EASTERN", "eastern"}

\* C20: for 'every day at 8 AM' the cron expression is '0 13 * * *' when
\* the time zone contains 'eastern' and '0 8 * * *' when it is UTC or
\* absent; every result is '<minute> <hour> * * *'.
C20_EasternToUtc ==
    (last.name = GenerateCron /\ last.kind = "resolved") =>
        /\ last.msg[2] \in {"0 8 * * *", "0 13 * * *"}
        /\ Get(last.params, "natural_language_time_description").v = EveryDayAt8AM =>
              IF Eastern(Get(last.params, "time_zone"))
              THEN last.msg[2] = "0 13 * * *"
              ELSE last.msg[2] = "0 8 * * *"

-----------------------------------------------------------------------------
(* quarto_configure_site_yml called again and again on one _quarto.yml.    *)

EmptyConfig == Config("hand", "map", "absent", "absent", NoTheme)

\* a file with every addressed entry present and a sibling beside each
FullConfig ==
    [Config("hand", "map", "map", "map", ThemeString("cosmo")) EXCEPT
        !.top = {"title"},
        !.project = [kind |-> "map", type |-> "book", outdir |-> "docs",
                     sib |-> {"execute-dir"}],
        !.website = [kind |-> "map", sib |-> {"title"},
                     navbar |-> [kind |-> "map", pages |-> <<<<"old.qmd", "Old">>>>,
                                 sib |-> {"right"}],
                     sidebar |-> [kind |-> "map", pages |-> <<"old.qmd">>,
                                  sib |-> {"style"}]],
        !.fsib = {"pdf"},
        !.hsib = {"toc"}]

SiteTexts ==
    {Config("hand", k, "absent", "absent", NoTheme) : k \in {"error", "null", "scalar", "seq"}}
    \cup {EmptyConfig, FullConfig,
          [FullConfig EXCEPT !.project.kind = "string"],
          [FullConfig EXCEPT !.website.kind = "string"],
          [FullConfig EXCEPT !.website.navbar.kind = "string"],
          [FullConfig EXCEPT !.format = "string"],
          [FullConfig EXCEPT !.html = "string"]}

Navigation ==
    {[none |-> Undefined],
     [navigation_type |-> Str("navbar"), pages_list |-> Arr(<<"index.qmd", "about.qmd">>)],
     [navigation_type |-> Str("navbar"), pages_list |-> Arr(<<"index.qmd">>)],
     [navigation_type |-> Str("navbar"), pages_list |-> Arr(<<>>)],
     [navigation_type |-> Str("sidebar"), pages_list |-> Arr(<<"index.qmd">>)]}

SiteParams ==
    {[k \in {"quarto_yml_path", "project_type", "navigation_type", "pages_list",
             "theme_config"} |->
         CASE k = "quarto_yml_path" -> Str(YmlPath)
           [] k = "project_type" -> Str(t)
           [] k = "theme_config" -> th
           [] OTHER -> Get(n, k)] :
        t \in {"website", "default"}, n \in Navigation,
        th \in {Undefined, Str("[\"a.scss\"]")}}

InitSite ==
    /\ tools = InitialTools
    /\ registered = InitialTools
    /\ fs \in {[InitialFs(File(PlainDoc), File(PlainWorkflow)) EXCEPT !.yml = y] :
                  y \in {AbsentYml} \cup {File(c) : c \in SiteTexts}}
    /\ calls = <<>>
    /\ last = NoCall
    /\ arg = Idle
    /\ ret = Pending

NextSite == \E params \in SiteParams : Execute(ConfigureSite, params, "none")

SpecSite == InitSite /\ [][NextSite]_vars

\* does the call that ended address website.navbar.left / sidebar.contents
SetsPages(call, nav) ==
    /\ Get(call.params, "project_type") = Str("website")
    /\ Get(call.params, "navigation_type") = Str(nav)
    /\ Get(call.params, "pages_list").t = "array"
    /\ Len(Get(call.params, "pages_list").v) > 0

-----------------------------------------------------------------------------
(* The theme list quarto_apply_scss_theme writes. *)

\* how often x occurs in the sequence
Count(items, x) == Cardinality({i \in 1..Len(items) : items[i] = x})

\* C22: the file an invocation of quarto_apply_scss_theme writes from a
\* mapping has a theme list that holds the scss_file_path exactly once and
\* starts with every theme entry the invocation read, in their order.
C22_AppendsOnce ==
    [][\A i \in 1..Len(calls) :
          (/\ calls[i].pc = "write"
           /\ Len(calls') = Len(calls) /\ calls'[i].pc = "settle"
           /\ calls[i].content.kind = "map") =>
             LET before == calls[i].content.theme
                 after == fs'.yml.text.theme
             IN  /\ after.kind = "list"
                 /\ Count(after.items, ScssPath(i)) = 1
                 /\ Len(after.items) >= Len(before.items)
                 /\ SubSeq(after.items, 1, Len(before.items)) = before.items]_vars

-----------------------------------------------------------------------------
(* Dashboard tools issued one after the other on the same document. *)

\* the header entries an invocation of a dashboard tool sets
ChangesOf(toolName, params) ==
    CASE toolName = DefineFormat ->
           {<<"format", <<OrDefault(Get(params, "format_type"), "dashboard").v>>>>}
      [] toolName = DefineLayout ->
           {<<"format", <<"dashboard">>>>,
            <<"layout", <<Get(params, "layout_structure").v>>>>,
            <<"orientation", <<OrDefault(Get(params, "orientation"), "columns").v>>>>}
      [] toolName = AddLogo -> {<<"logo", <<Get(params, "logo_image_path").v>>>>}
      [] OTHER -> {}

\* C26: when two dashboard tools resolved one after the other on the same
\* file, the file holds the entries the second one set and every entry the
\* first one set under a key the second does not set: no update is lost.
C26_NoUpdateLost ==
    [][(/\ CallEnds
        /\ last.name \in DashboardTools /\ last.kind = "resolved"
        /\ last'.name \in DashboardTools /\ last'.kind = "resolved"
        /\ Get(last.params, "qmd_file_path") = Get(last'.params, "qmd_file_path")) =>
          LET text == fs'.docs[Get(last'.params, "qmd_file_path").v].text
          IN  /\ \A c \in ChangesOf(last'.name, last'.params) : HeaderHas(text, c[1], c[2])
              /\ \A c \in ChangesOf(last.name, last.params) :
                    c[1] \notin KeysSetBy(last'.name) => HeaderHas(text, c[1], c[2])]_vars

-----------------------------------------------------------------------------
(* The lines of a document outside its header block. *)

\* the lines that are not in the region from the first to the second
\* delimiter line; every line when there is no such region
Outside(text) ==
    LET s == frontMatterStart(text)
        e == frontMatterEnd(text)
    IN  IF s # -1 /\ e # -1
        THEN SubSeq(text, 1, s - 1) \o SubSeq(text, e + 1, Len(text))
        ELSE text

\* a occurs in b, in order
RECURSIVE IsSubseq(_, _)
IsSubseq(a, b) ==
    IF a = <<>> THEN TRUE
    ELSE IF b = <<>> THEN FALSE
    ELSE IF Head(a) = Head(b) THEN IsSubseq(Tail(a), Tail(b))
    ELSE IsSubseq(a, Tail(b))

\* C27: after a dashboard tool resolved, every line of the original text
\* that is outside the header block is in the file, in the original order.
C27_OnlyHeaderChanges ==
    [][(CallEnds /\ last'.name \in DashboardTools /\ last'.kind = "resolved") =>
          LET path == Get(last'.params, "qmd_file_path").v
          IN  IsSubseq(Outside(fs.docs[path].text), fs'.docs[path].text)]_vars

-----------------------------------------------------------------------------
(* The schedule github_actions_schedule_workflow leaves in the file. *)

\* C28: after github_actions_schedule_workflow resolved, on.schedule of the
\* workflow file is the one entry of the call's cron_expression, and the
\* other triggers and the other top-level keys are as they were.
C28_ScheduleReplaced ==
    [][(CallEnds /\ last'.name = ScheduleWorkflow /\ last'.kind = "resolved") =>
          /\ fs'.wf.text.on.schedule = <<Get(last'.params, "cron_expression").v>>
          /\ fs'.wf.text.on.push = fs.wf.text.on.push
          /\ fs'.wf.text.jobs = fs.wf.text.jobs
          /\ fs'.wf.text.env = fs.wf.text.env]_vars

-----------------------------------------------------------------------------
(* The registry compared with the manifest of tool definitions. *)

Threw(msg) == [state |-> "threw", r |-> msg]

\* a getToolDefinitions without its try/catch
getToolDefinitionsUnguarded(f) ==
    IF f.manifest.kind \in {"absent", "invalid"}
    THEN [threw |-> TRUE, kind |-> "none", names |-> <<>>]
    ELSE [threw |-> FALSE, kind |-> f.manifest.kind, names |-> f.manifest.names]

\* CopilotQuarto.getToolDefinitions: readFileSync and JSON.parse inside a
\* try whose catch returns []
getToolDefinitions(f) ==
    IF f.manifest.kind \in {"absent", "invalid"}
    THEN [threw |-> FALSE, kind |-> "array", names |-> <<>>]
    ELSE [threw |-> FALSE, kind |-> f.manifest.kind, names |-> f.manifest.names]

\* array.filter(keep)
RECURSIVE Filter(_, _)
Filter(items, keep) ==
    IF items = <<>> THEN <<>>
    ELSE IF Head(items) \in keep THEN <<Head(items)>> \o Filter(Tail(items), keep)
    ELSE Filter(Tail(items), keep)

\* CopilotQuarto.validateImplementation
validateImplementation(tls, f) ==
    LET definitions == getToolDefinitions(f)
        implemented == getToolNames(tls)
    IN  IF definitions.threw THEN Threw("Error")
        \* definitions.map is not a function
        ELSE IF definitions.kind # "array" THEN Threw("TypeError")
        ELSE LET missing == Filter(definitions.names,
                                   Range(definitions.names) \ Range(implemented))
                 extra == Filter(implemented, Range(implemented) \ Range(definitions.names))
             IN  Done([allImplemented |-> Len(missing) = 0,
                       missing |-> missing,
                       extra |-> extra,
                       implemented |-> Len(implemented),
                       defined |-> Len(definitions.names)])

MissingName == "r_missing_tool"
MaxManifest == 2
ManifestNames == {DefineFormat, AddLogo, CustomName, MissingName}
Manifests ==
    {Manifest(k, <<>>) : k \in {"absent", "invalid", "object"}}
    \cup {Manifest("array", names) : names \in SeqsUpTo(ManifestNames, MaxManifest)}

InitManifest ==
    /\ tools = InitialTools
    /\ registered = InitialTools
    /\ fs \in {[InitialFs(File(PlainDoc), File(PlainWorkflow)) EXCEPT !.manifest = m] :
                 m \in Manifests}
    /\ calls = <<>>
    /\ last = NoCall
    /\ arg = Idle
    /\ ret = Pending

ValidateImplementation ==
    /\ ret' = validateImplementation(tools, fs)
    /\ UNCHANGED <<tools, fs, calls, registered, last, arg>>

NextManifest ==
    \/ \E tool \in Candidates : Register(tool) /\ ret = Pending
    \/ ValidateImplementation

SpecManifest == InitManifest /\ [][NextManifest]_vars

\* C25: a validateImplementation on a manifest that is a list of
\* definitions or cannot be read returns; missing holds the manifest names
\* that are not registered, extra the registered names that are not in the
\* manifest, the two share no name, allImplemented tells that missing is
\* empty, implemented counts the registered names; for a manifest that
\* cannot be read defined is 0 and extra holds every registered name.
C25_ManifestComparison ==
    (ret # Pending /\ fs.manifest.kind # "object") =>
        /\ ret.state = "done"
        /\ LET names == IF fs.manifest.kind = "array" THEN fs.manifest.names ELSE <<>>
               implemented == getToolNames(tools)
           IN  /\ Range(ret.r.missing) = Range(names) \ Range(implemented)
               /\ Range(ret.r.extra) = Range(implemented) \ Range(names)
               /\ Range(ret.r.missing) \cap Range(ret.r.extra) = {}
               /\ ret.r.allImplemented <=> ret.r.missing = <<>>
               /\ ret.r.implemented = Len(tools)
               /\ fs.manifest.kind \in {"absent", "invalid"} =>
                     /\ ret.r.defined = 0
                     /\ ret.r.extra = implemented

\* the manifest is not JSON and a tool was registered after construction
C25_Witness ==
    /\ ret # Pending /\ ret.state = "done"
    /\ fs.manifest.kind = "invalid"
    /\ Len(tools) > Len(InitialTools)
    /\ ret.r.defined = 0 /\ ret.r.extra = getToolNames(tools)

-----------------------------------------------------------------------------
(* r_json_parse and r_package_httr2_api_access: the R code they return and *)
(* the temporary files they write.                                         *)

\* a JavaScript object, by its content
Obj(v) == [t |-> "object", v |-> v]

\* JSON.stringify(value)
JSONStringify(x) ==
    IF x.t = "object" THEN <<"{", x.v, "}">> ELSE <<"\"", x.v, "\"">>

\* fs.writeFile(path, data, {mode}): open with O_WRONLY|O_CREAT|O_TRUNC;
\* the mode is applied, less the umask, only when the open creates the
\* file; a file that exists keeps its mode and refuses an owner who may
\* not write it
WriteFile(file, data, mode) ==
    IF ~file.exists THEN [threw |-> FALSE, file |-> TmpFile(data, mode \ Umask)]
    ELSE IF "uw" \notin file.mode THEN [threw |-> TRUE, file |-> file]
    ELSE [threw |-> FALSE, file |-> [file EXCEPT !.text = data]]

\* a template that writes the token into the code
HttrCodeInline(params) ==
    <<"library(httr2)", "library(jsonlite)",
      "auth_token <- \"", Get(params, "authentication_token").v, "\"",
      "temp_json_file <- file.path(tempdir(), \"copilot_api_body.json\")",
      "endpoint = \"", Get(params, "api_endpoint").v, "\"",
      "path = \"", Get(params, "request_path_append").v, "\"",
      "token = auth_token", "body_data = body_json_data">>

\* the rCode template of RPackageHttr2ApiAccess.execute: its fixed text and
\* the two values it interpolates
HttrCode(params) ==
    <<"library(httr2)", "library(jsonlite)",
      "auth_token <- Sys.getenv(\"COPILOT_API_TOKEN\")",
      "temp_token_file <- file.path(tempdir(), \"copilot_api_token.txt\")",
      "temp_json_file <- file.path(tempdir(), \"copilot_api_body.json\")",
      "endpoint = \"", Get(params, "api_endpoint").v, "\"",
      "path = \"", Get(params, "request_path_append").v, "\"",
      "token = auth_token", "body_data = body_json_data">>

\* the rCode template of RJsonParse.execute: it interpolates nothing
JsonCode(params) ==
    <<"library(jsonlite)",
      "json_env_var <- Sys.getenv(\"COPILOT_JSON_DATA\")",
      "temp_json_file <- file.path(tempdir(), \"copilot_json_data.json\")",
      "parsed_data <- parse_json_safely(json_text)">>

WriteFailure == Rejected(<<"EACCES">>)

\* fs.writeFile(tempJsonFile, json_string, 'utf8') reaches the file
JsonWrite(i) ==
    /\ calls[i].pc = "jsonwrite"
    /\ LET w == WriteFile(fs.tmp[JsonFile], <<Get(calls[i].params, "json_string").v>>,
                          DefaultMode)
       IN  IF w.threw THEN Settled(i, WriteFailure) /\ UNCHANGED fs
           ELSE /\ fs' = [fs EXCEPT !.tmp[JsonFile] = w.file]
                /\ calls' = [calls EXCEPT ![i].pc = "jsonsettle", ![i].order = LastOrder + 1]
                /\ UNCHANGED last
    /\ UNCHANGED <<tools, registered, arg, ret>>

\* await fs.writeFile returns and r_json_parse resolves
JsonSettle(i) ==
    /\ calls[i].pc = "jsonsettle"
    /\ Settled(i, Resolved(<<"success", JsonCode(calls[i].params), JsonFile>>))
    /\ UNCHANGED <<tools, fs, registered, arg, ret>>

\* fs.writeFile(tempTokenFile, authentication_token, { mode: 0o600 })
HttrToken(i) ==
    /\ calls[i].pc = "token"
    /\ LET w == WriteFile(fs.tmp[TokenFile],
                          <<Get(calls[i].params, "authentication_token").v>>, Mode600)
       IN  IF w.threw THEN Settled(i, WriteFailure) /\ UNCHANGED fs
           ELSE /\ fs' = [fs EXCEPT !.tmp[TokenFile] = w.file]
                /\ calls' = [calls EXCEPT ![i].pc = "body"]
                /\ UNCHANGED last
    /\ UNCHANGED <<tools, registered, arg, ret>>

\* fs.writeFile(tempJsonFile, JSON.stringify(body_json), { mode: 0o600 })
HttrBody(i) ==
    /\ calls[i].pc = "body"
    /\ LET w == WriteFile(fs.tmp[BodyFile],
                          JSONStringify(Get(calls[i].params, "body_json")), Mode600)
       IN  IF w.threw THEN Settled(i, WriteFailure) /\ UNCHANGED fs
           ELSE /\ fs' = [fs EXCEPT !.tmp[BodyFile] = w.file]
                /\ calls' = [calls EXCEPT ![i].pc = "httrsettle", ![i].order = LastOrder + 1]
                /\ UNCHANGED last
    /\ UNCHANGED <<tools, registered, arg, ret>>

\* the second await returns and r_package_httr2_api_access resolves
HttrSettle(i) ==
    /\ calls[i].pc = "httrsettle"
    /\ Settled(i, Resolved(<<"success", HttrCode(calls[i].params), TokenFile, BodyFile>>))
    /\ UNCHANGED <<tools, fs, registered, arg, ret>>

JsonStrings ==
    {"{\"a\": 1}", "{\"cmd\": \"'; evil_code(); #\"}", "{\"invalid\": }"}
Tokens == {"secret_token_12345", "other_token"}
BodyObjects == {Obj("action: test"), Obj("id: 1")}

JsonParams == {[json_string |-> Str(j)] : j \in JsonStrings}
HttrParams ==
    {[api_endpoint |-> Str("https://api.example.com"), request_path_append |-> Str("/test"),
      authentication_token |-> Str(t), body_json |-> b] : t \in Tokens, b \in BodyObjects}
SecretCalls ==
    ({JsonParse} \X (JsonParams \cup {NoParams}))
    \cup ({Httr2Access} \X (HttrParams \cup {NoParams}))

\* the state of the temporary directory before the calls
TmpStates ==
    {[n \in TmpNames |->
         CASE n = TokenFile -> t
           [] n = JsonFile -> j
           [] OTHER -> NoTmpFile] :
       t \in {NoTmpFile} \cup {TmpFile(<<"stale">>, m) : m \in {Mode600, Mode644, Mode444}},
       j \in {NoTmpFile, TmpFile(<<"stale">>, Mode644)}}

InitSecrets ==
    /\ tools = InitialTools
    /\ registered = InitialTools
    /\ fs \in {[InitialFs(File(PlainDoc), File(PlainWorkflow)) EXCEPT !.tmp = t] :
                 t \in TmpStates}
    /\ calls = <<>>
    /\ last = NoCall
    /\ arg = Idle
    /\ ret = Pending

\* the caller awaits each call before it makes the next
NextSecrets ==
    \/ \E c \in SecretCalls : Awaited /\ Begin(c[1], c[2])
    \/ \E c \in SecretCalls : Awaited /\ Execute(c[1], c[2], "none")
    \/ \E i \in 1..Len(calls) : JsonWrite(i)
    \/ \E i \in 1..Len(calls) : JsonSettle(i)
    \/ \E i \in 1..Len(calls) : HttrToken(i)
    \/ \E i \in 1..Len(calls) : HttrBody(i)
    \/ \E i \in 1..Len(calls) : HttrSettle(i)

SpecSecrets == InitSecrets /\ [][NextSecrets]_vars

\* several r_json_parse invocations in flight at once
InitJson ==
    /\ tools = InitialTools
    /\ registered = InitialTools
    /\ fs \in {[InitialFs(File(PlainDoc), File(PlainWorkflow)) EXCEPT !.tmp = t] :
                 t \in {u \in TmpStates : ~u[TokenFile].exists}}
    /\ calls = <<>>
    /\ last = NoCall
    /\ arg = Idle
    /\ ret = Pending

NextJson ==
    \/ \E p \in JsonParams \cup {NoParams} : Begin(JsonParse, p)
    \/ \E p \in JsonParams \cup {NoParams} : Execute(JsonParse, p, "none")
    \/ \E i \in 1..Len(calls) : JsonWrite(i)
    \/ \E i \in 1..Len(calls) : JsonSettle(i)

SpecJson == InitJson /\ [][NextJson]_vars

\* C23: the r_code a resolved r_json_parse returned is the one it returns
\* for every other json_string, the r_code a resolved
\* r_package_httr2_api_access returned is the one it returns for every other
\* authentication_token and body_json, and neither holds the secret value,
\* which is in the temporary file the result names.
C23_SecretsNotInCode ==
    [][/\ (last' # last /\ last'.name = JsonParse /\ last'.kind = "resolved") =>
             /\ \A j \in JsonStrings :
                   JsonCode([last'.params EXCEPT !.json_string = Str(j)]) = last'.msg[2]
             /\ Get(last'.params, "json_string").v \notin Range(last'.msg[2])
             /\ fs'.tmp[last'.msg[3]].text = <<Get(last'.params, "json_string").v>>
       /\ (last' # last /\ last'.name = Httr2Access /\ last'.kind = "resolved") =>
             /\ \A t \in Tokens, b \in BodyObjects :
                   HttrCode([last'.params EXCEPT !.authentication_token = Str(t),
                                                 !.body_json = b]) = last'.msg[2]
             /\ Get(last'.params, "authentication_token").v \notin Range(last'.msg[2])
             /\ Get(last'.params, "body_json").v \notin Range(last'.msg[2])
             /\ fs'.tmp[last'.msg[3]].text = <<Get(last'.params, "authentication_token").v>>
             /\ fs'.tmp[last'.msg[4]].text = JSONStringify(Get(last'.params, "body_json"))]_vars

\* both tools have resolved, the second with the token of the test
C23_Witness ==
    /\ Len(calls) = 2
    /\ calls[1].cls = JsonParse /\ calls[1].kind = "resolved"
    /\ last.name = Httr2Access /\ last.kind = "resolved"
    /\ Get(last.params, "authentication_token").v = "secret_token_12345"
    /\ fs.tmp[TokenFile].text = <<"secret_token_12345">>

\* C24: when r_package_httr2_api_access resolves, the token file exists,
\* holds the authentication_token and has no permission bit for group or
\* others, whatever was at the path before the call.
C24_TokenFileRestricted ==
    [][\A i \in 1..Len(calls) :
          (/\ calls[i].cls = Httr2Access /\ calls[i].pc = "httrsettle"
           /\ Len(calls') = Len(calls) /\ calls'[i].pc = "done"
           /\ calls'[i].kind = "resolved") =>
             /\ fs'.tmp[TokenFile].exists
             /\ fs'.tmp[TokenFile].text = <<Get(calls[i].params, "authentication_token").v>>
             /\ fs'.tmp[TokenFile].mode \cap GroupOtherBits = {}]_vars

\* C30: when an r_json_parse invocation resolves, the temporary JSON file
\* holds the json_string of that invocation.
C30_OwnJsonInFile ==
    [][\A i \in 1..Len(calls) :
          (/\ calls[i].cls = JsonParse /\ calls[i].pc = "jsonsettle"
           /\ Len(calls') = Len(calls) /\ calls'[i].pc = "done"
           /\ calls'[i].kind = "resolved") =>
             fs'.tmp[JsonFile].text = <<Get(calls[i].params, "json_string").v>>]_vars

-----------------------------------------------------------------------------
(* r_store_local_secrets_renviron. The content of .Renviron is kept as     *)
(* content.split('\n') gives it: a text that ends with a line break has an *)
(* empty last element. A value is the sequence of its lines.               *)

\* line.startsWith(`${variable_name}=`)
StartsWithName(line, name) == Len(line) >= 2 /\ line[1] = name /\ line[2] = "="

\* `${variable_name}=${variable_value}` as it reads once it is in the file:
\* a line break inside the value starts a new line
EntryLines(name, value) ==
    [i \in 1..Len(value) |-> IF i = 1 THEN <<name, "=", value[1]>> ELSE <<value[i]>>]

\* lines.findIndex(...), counted from 1; 0 when no line matches
findIndex(lines, name) ==
    LET hits == {i \in 1..Len(lines) : StartsWithName(lines[i], name)}
    IN  IF hits = {} THEN 0 ELSE CHOOSE i \in hits : \A j \in hits : i <= j

\* the update of RStoreLocalSecretsRenviron.execute: finalContent, split
RenvironApply(lines, name, value) ==
    LET existingIndex == findIndex(lines, name)
    IN  IF existingIndex > 0
        THEN SubSeq(lines, 1, existingIndex - 1) \o EntryLines(name, value)
             \o SubSeq(lines, existingIndex + 1, Len(lines))
        ELSE LET base == IF lines = <<EmptyLine>> THEN <<>>
                         ELSE IF lines[Len(lines)] = EmptyLine
                              THEN SubSeq(lines, 1, Len(lines) - 1)
                         ELSE lines
             IN  base \o EntryLines(name, value) \o <<EmptyLine>>

\* await fs.pathExists(renvironPath)
RenvExists(i) ==
    /\ calls[i].pc = "renvexists"
    /\ calls' = IF fs.renviron.exists
                THEN [calls EXCEPT ![i].pc = "renvread"]
                ELSE [calls EXCEPT ![i].pc = "renvwrite",
                                   ![i].content = <<EmptyLine>>,
                                   ![i].updated =
                                       RenvironApply(<<EmptyLine>>,
                                                     Get(calls[i].params, "variable_name").v,
                                                     Get(calls[i].params, "variable_value").v)]
    /\ UNCHANGED <<tools, fs, registered, last, arg, ret>>

\* await fs.readFile, then the update up to fs.writeFile
RenvRead(i) ==
    /\ calls[i].pc = "renvread"
    /\ calls' = [calls EXCEPT ![i].pc = "renvwrite",
                              ![i].content = fs.renviron.text,
                              ![i].updated =
                                  RenvironApply(fs.renviron.text,
                                                Get(calls[i].params, "variable_name").v,
                                                Get(calls[i].params, "variable_value").v)]
    /\ UNCHANGED <<tools, fs, registered, last, arg, ret>>

\* the write of fs.writeFile(renvironPath, finalContent) reaches the file
RenvWrite(i) ==
    /\ calls[i].pc = "renvwrite"
    /\ fs' = [fs EXCEPT !.renviron = File(calls[i].updated)]
    /\ calls' = [calls EXCEPT ![i].pc = "renvsettle", ![i].order = LastOrder + 1]
    /\ UNCHANGED <<tools, registered, last, arg, ret>>

\* await fs.writeFile returns and execute resolves
RenvSettle(i) ==
    /\ calls[i].pc = "renvsettle"
    /\ Settled(i, Resolved(<<"success">>))
    /\ UNCHANGED <<tools, fs, registered, arg, ret>>

KeyName == "API_KEY"
KeyOld == <<KeyName, "=", "old">>
OtherEntry == <<"OTHER", "=", "1">>
CommentLine == <<"# secrets">>
RenvironTexts ==
    {<<EmptyLine>>,
     <<OtherEntry, EmptyLine>>,
     <<OtherEntry>>,
     <<KeyOld, OtherEntry, EmptyLine>>,
     <<CommentLine, KeyOld, EmptyLine>>,
     <<OtherEntry, KeyOld>>}

\* a value of one line, another one, and a value of two lines
SecretValues == {<<"v1">>, <<"v2">>, <<"line1", "line2">>}
RenvironParams ==
    {[variable_name |-> Str(KeyName), variable_value |-> Text(v)] : v \in SecretValues}
    \cup {NoParams}

InitRenviron ==
    /\ tools = InitialTools
    /\ registered = InitialTools
    /\ fs \in {[InitialFs(File(PlainDoc), File(PlainWorkflow)) EXCEPT !.renviron = r] :
                 r \in {NoRenviron} \cup {File(t) : t \in RenvironTexts}}
    /\ calls = <<>>
    /\ last = NoCall
    /\ arg = Idle
    /\ ret = Pending

\* the caller awaits each call before it makes the next
NextRenviron ==
    \/ \E p \in RenvironParams : Awaited /\ Begin(StoreSecrets, p)
    \/ \E p \in RenvironParams : Awaited /\ Execute(StoreSecrets, p, "none")
    \/ \E i \in 1..Len(calls) : RenvExists(i)
    \/ \E i \in 1..Len(calls) : RenvRead(i)
    \/ \E i \in 1..Len(calls) : RenvWrite(i)
    \/ \E i \in 1..Len(calls) : RenvSettle(i)

SpecRenviron == InitRenviron /\ [][NextRenviron]_vars

\* the lines of a text: the empty element after a final line break is none
TextLines(lines) ==
    IF lines[Len(lines)] = EmptyLine THEN SubSeq(lines, 1, Len(lines) - 1) ELSE lines

\* the lines that do not start with name=
RECURSIVE OtherLines(_, _)
OtherLines(lines, name) ==
    IF lines = <<>> THEN <<>>
    ELSE IF StartsWithName(Head(lines), name) THEN OtherLines(Tail(lines), name)
    ELSE <<Head(lines)>> \o OtherLines(Tail(lines), name)

\* C29: r_store_local_secrets_renviron, on a .Renviron with at most one
\* line that starts with name=, writes a file with exactly one such line,
\* the line name=value; the other lines are the ones read, in their order;
\* a line that was there is replaced where it stood; and the same call on
\* the file written would write the same file.
C29_SetsOneVariable ==
    [][\A i \in 1..Len(calls) :
          (/\ calls[i].cls = StoreSecrets /\ calls[i].pc = "renvwrite"
           /\ Len(calls') = Len(calls) /\ calls'[i].pc = "renvsettle"
           /\ Cardinality({k \in 1..Len(calls[i].content) :
                             StartsWithName(calls[i].content[k],
                                            Get(calls[i].params, "variable_name").v)}) <= 1) =>
             LET name == Get(calls[i].params, "variable_name").v
                 value == Get(calls[i].params, "variable_value").v
                 before == calls[i].content
                 after == fs'.renviron.text
                 at == {k \in 1..Len(after) : StartsWithName(after[k], name)}
             IN  /\ Cardinality(at) = 1
                 /\ \A k \in at : after[k] = <<name, "=">> \o value
                 /\ OtherLines(TextLines(after), name) = OtherLines(TextLines(before), name)
                 /\ findIndex(before, name) > 0 => findIndex(after, name) = findIndex(before, name)
                 /\ RenvironApply(after, name, value) = after]_vars

====
